---- MODULE Spec2Model ----
(***************************************************************************)
(* A model of the ring tree of kagwave/ring-tree (package ringtree): a     *)
(* hierarchical consistent-hash ring whose overloaded leaves are split     *)
(* into sub-rings and whose drained sub-rings collapse back into leaves.   *)
(*                                                                         *)
(* The heap is an arena: T.rings maps a ring id to the Ring object,        *)
(* T.nodes maps a node id to the Node object.  A member id of a ring is a  *)
(* leaf when it is in DOMAIN T.nodes and a sub-ring when it is in          *)
(* DOMAIN T.rings (the Go code decides this with a type switch on          *)
(* r.members[id]).  Every operation of the package is an operator from a   *)
(* heap T to a heap; T.err is the error the Go function returns ("" is     *)
(* nil).  The public operations are the actions, each applied to the root. *)
(***************************************************************************)
EXTENDS Integers, Sequences, FiniteSets, TLC

(***************************************************************************)
(* Bounds of the model and program constants.                              *)
(***************************************************************************)
NumReplicas == 2        \* var NumReplicas (20 in the source, a tuning global)
branchFactor == 1       \* var branchFactor
MaxKeys == 3            \* distinct key strings the caller uses
MaxIds == 5             \* node ids createId() hands out in one run
MaxLevel == 2           \* deepest ring level that is explored
MaxThreshold == 1       \* thresholds a caller passes to NewNode: 1..MaxThreshold
MaxCount == 2           \* values a caller passes to New: 0..MaxCount
MaxDeficit == 1         \* how far below 0 a failed RemoveNode may take a load
NumSalts == 1           \* families of strings (hash placements) explored
MaxDrainIds == 7        \* node ids createId() hands out in a run of SpecDrain
MaxDrainCount == 3      \* values a caller passes to New in SpecDrain: 0..MaxDrainCount
MaxHash == 4            \* vNode hashes a caller passes to a Circle: 0..MaxHash
MaxOwners == 2          \* node ids a caller passes to a Circle
MaxHops == 2            \* ParallelGossip calls that may follow one another on a chain
MaxAdded == 1           \* what a caller adds to the WaitGroup it passes: 0..MaxAdded
MaxThreads == 2         \* goroutines that call the tree concurrently
MaxRaceThreshold == 2   \* thresholds of the first leaf in SpecRace: 1..MaxRaceThreshold
MaxRaceIds == 7         \* node ids createId() hands out in a run of SpecRace

IdPool == <<"n1", "n2", "n3", "n4", "n5", "n6", "n7", "n8", "n9", "n10", "n11", "n12">>
KeyPool == <<"k1", "k2", "k3", "k4", "k5", "k6">>

Keys == {KeyPool[i] : i \in 1..MaxKeys}
Ids == {IdPool[i] : i \in 1..MaxIds}
Thresholds == 1..MaxThreshold
Orders == {"asc", "desc"}

VARIABLES
    rings,      \* ring id -> Ring (id, level, circle, members, maxCount, parent)
    nodes,      \* node id -> Node (id, keys, load, threshold)
    nextId,     \* how many ids createId() has handed out
    budget,     \* how many ids createId() may hand out in this run
    salt,       \* which strings the pool names stand for (fixes their hashes)
    last,       \* the last public call: operation, argument, result, and how
                \* many ids createId() handed out for it
    stored,     \* history: keys whose InsertKey succeeded, with no RemoveKey of
                \* them called since
    clean,      \* history: the keys of stored with only key operations called since
    gone,       \* history: keys of clean a RemoveKey took out, not inserted since
    phase,      \* history: "new", then "grow" while one InsertNode and then only
                \* InsertKey calls were made, then "drain" while only RemoveKey
                \* calls were made, all with success; then "any"
    vNodes,     \* ArrayCircle.vNodes: the slice of an array-backed Circle
    tree,       \* the redBlackTree of a tree-backed Circle
    entries,    \* the ordered map both Circles are meant to hold
    tasks,      \* the goroutines of a Traversal, of a ParallelGossip or of
                \* concurrent calls of the tree
    visited,    \* the leaves the operation of a Traversal was invoked on
    wg          \* the counters of the sync.WaitGroups of a ParallelGossip

vars == <<rings, nodes, nextId, budget, salt, last, stored, clean, gone, phase,
          vNodes, tree, entries, tasks, visited, wg>>

\* The variables of a ring tree but for the record of the last call, and the
\* variables of a pair of Circles used on their own.
ringVars == <<rings, nodes, nextId, budget, salt, stored, clean, gone, phase>>
circleVars == <<vNodes, tree, entries>>
taskVars == <<tasks, visited, wg>>

(***************************************************************************)
(* Small helpers.                                                          *)
(***************************************************************************)
Min(S) == CHOOSE x \in S : \A y \in S : x <= y
Max(S) == CHOOSE x \in S : \A y \in S : x >= y

PoolIndex(pool, s) == CHOOSE i \in 1..Len(pool) : pool[i] = s

\* A key string that differs from KeyPool[1] and hashes like it at every level:
\* hash writes the key bytes first and the level bytes after them, so two
\* strings that leave murmur3 in the same state ("key00001" and "aaac9IhK" do)
\* give the same hash whatever the level is.
Twin == "k1'"

\* The number a string stands for when it is hashed: ids first, keys after.
Code(s) ==
    IF \E i \in 1..Len(IdPool) : IdPool[i] = s
    THEN PoolIndex(IdPool, s)
    ELSE IF s = Twin
    THEN Len(IdPool) + 1
    ELSE Len(IdPool) + PoolIndex(KeyPool, s)

\* Go ranges over a map in an unspecified order; a run explores the
\* ascending and the descending order of the entries.
PickInt(S, ord) == IF ord = "asc" THEN Min(S) ELSE Max(S)
PickStr(S, ord) ==
    CHOOSE s \in S : \A t \in S :
        IF ord = "asc" THEN Code(s) <= Code(t) ELSE Code(s) >= Code(t)

MapPut(f, k, v) == [x \in DOMAIN f \cup {k} |-> IF x = k THEN v ELSE f[x]]
MapDel(f, k) == [x \in DOMAIN f \ {k} |-> f[x]]

(***************************************************************************)
(* hash: murmur3 over key || little-endian(level).  murmur3 is a library   *)
(* outside the repository; it is represented by a pure function into a     *)
(* small hash space: cubing is a permutation of 0..52, so placements are   *)
(* scattered, and the function is injective on (node id, replica): the     *)
(* vNode hashes of distinct members never collide, while the hash of a key *)
(* may equal that of a vNode.  The salt stands for the choice of strings.  *)
(***************************************************************************)
Scatter(x) == (x * x * x) % 53

hash(key, level) == Scatter((Code(key) * 4 + level + 7 * (salt + 3)) % 53)

(***************************************************************************)
(* Circle: an ordered map from vNode hash to member id (the red-black tree *)
(* backing, useArray = false).  A circle is a function on its hashes.      *)
(***************************************************************************)
NoVNode == [hash |-> 0, id |-> ""]

CircleInsert(c, vNodeHash, nodeID) ==
    IF vNodeHash \in DOMAIN c THEN c ELSE MapPut(c, vNodeHash, nodeID)

CircleDelete(c, vNodeHash) == MapDel(c, vNodeHash)

CircleSize(c) == Cardinality(DOMAIN c)

\* The entry with the smallest hash >= h, else the minimum entry.
FindClosest(c, h) ==
    IF DOMAIN c = {} THEN NoVNode
    ELSE LET ge == {x \in DOMAIN c : x >= h}
             k == IF ge = {} THEN Min(DOMAIN c) ELSE Min(ge)
         IN [hash |-> k, id |-> c[k]]

\* The entry with the smallest hash > h, else the minimum entry.
FindNextClosest(c, h) ==
    IF DOMAIN c = {} THEN NoVNode
    ELSE LET gt == {x \in DOMAIN c : x > h}
             k == IF gt = {} THEN Min(DOMAIN c) ELSE Min(gt)
         IN [hash |-> k, id |-> c[k]]

(***************************************************************************)
(* Objects.                                                                *)
(***************************************************************************)
NoRing == "none"
RootId == "main"

newRing(parent, id, level, maxCount) ==
    [id |-> id, parent |-> parent, level |-> level, circle |-> << >>,
     members |-> {}, maxCount |-> maxCount]

\* Faulty variant of New: maxCount is not floored to 2.
NewUnfloored(maxCount) == newRing(NoRing, RootId, 0, maxCount)

New(maxCount) ==
    newRing(NoRing, RootId, 0, IF maxCount < 2 THEN 2 ELSE maxCount)

NewNode(id, threshold) ==
    [id |-> id, keys |-> << >>, load |-> 0, threshold |-> threshold]

\* createId(): a fresh random id; the next unused name of the pool.
createId(T) == IdPool[T.nextId + 1]

IsNode(T, id) == id \in DOMAIN T.nodes
IsRing(T, id) == id \in DOMAIN T.rings

Size(T, r) == Cardinality(T.rings[r].members)

\* IsEmpty: no leaf member of the ring holds a key.
IsEmpty(T, r) ==
    \A m \in T.rings[r].members : IsNode(T, m) => ~(T.nodes[m].load > 0)

Fail(T, e) == [T EXCEPT !.err = e]

(***************************************************************************)
(* FindNode: descend from ring r to the leaf responsible for key.          *)
(***************************************************************************)
NotFound(e) ==
    [err |-> e, node |-> "", ring |-> NoRing, vNodeHash |-> 0, keyHash |-> 0]

Found(node, ring, c, keyHash) ==
    [err |-> "", node |-> node, ring |-> ring, vNodeHash |-> c.hash, keyHash |-> keyHash]

RECURSIVE FindNode(_, _, _)

resolve(T, r, key, c) ==
    IF c.id = "" \/ c.id \notin T.rings[r].members
    THEN NotFound("hash not found in circle map")
    ELSE IF IsNode(T, c.id)
    THEN Found(c.id, r, c, hash(key, T.rings[r].level))
    ELSE FindNode(T, c.id, key)

\* Faulty variant of FindNode: the empty-ring check is missing.
FindNodeUnchecked(T, r, key) ==
    resolve(T, r, key, FindClosest(T.rings[r].circle, hash(key, T.rings[r].level)))

FindNode(T, r, key) ==
    IF Size(T, r) = 0 THEN NotFound("ring is empty")
    ELSE resolve(T, r, key,
                 FindClosest(T.rings[r].circle, hash(key, T.rings[r].level)))

\* The key map of vNode v of node n (nil, that is empty, when n has no such vNode).
KeysAt(T, n, v) ==
    IF v \in DOMAIN T.nodes[n].keys THEN T.nodes[n].keys[v] ELSE << >>

\* Whether key is in the key set of vNode v of node n.
HasKey(T, n, v, key) == key \in DOMAIN KeysAt(T, n, v)

(***************************************************************************)
(* Lookup: the id of the leaf that holds key, or an error.                 *)
(***************************************************************************)
lookupAt(T, f, key) ==
    IF f.err # "" THEN [id |-> "", err |-> f.err]
    ELSE IF HasKey(T, f.node, f.vNodeHash, key)
    THEN [id |-> f.node, err |-> ""]
    ELSE [id |-> "", err |-> "key not found"]

Lookup(T, r, key) == lookupAt(T, FindNode(T, r, key), key)

(***************************************************************************)
(* Loops.  ForEach runs op over the elements of S in the order pick gives, *)
(* and stops at the first error, as the Go loops return on an error.       *)
(***************************************************************************)
ForEach(op(_, _), pick(_), T, S) ==
    LET RECURSIVE iter(_, _)
        iter(t, s) ==
            IF s = {} \/ t.err # "" THEN t
            ELSE iter(op(t, pick(s)), s \ {pick(s)})
    IN iter(T, S)

AnyOf(S) == CHOOSE x \in S : TRUE

(***************************************************************************)
(* The remap engine.                                                       *)
(***************************************************************************)
dropKey(T, n, v, key) ==
    [T EXCEPT !.nodes[n] =
        [@ EXCEPT !.keys = IF v \in DOMAIN @
                           THEN [@ EXCEPT ![v] = MapDel(@, key)]
                           ELSE @,
                  !.load = @ - 1]]

putKey(T, n, v, key, keyHash) ==
    [T EXCEPT !.nodes[n] =
        [@ EXCEPT !.keys = MapPut(@, v, MapPut(IF v \in DOMAIN @ THEN @[v] ELSE << >>,
                                               key, keyHash)),
                  !.load = @ + 1]]

\* moveKey: take key out of oldNode.keys[oldVNodeHash] and put it, with its
\* hash, into newNode.keys[newVNodeHash]; adjust both loads.
moveKey(T, key, keyHash, oldNode, oldVNodeHash, newNode, newVNodeHash) ==
    putKey(dropKey(T, oldNode, oldVNodeHash, key), newNode, newVNodeHash, key, keyHash)

\* Faulty variant of shouldMove: the case of the new vNode being the smallest
\* on the circle, which takes the keys that wrapped around, is missing.
shouldMoveNoWrap(keyHash, newVNodeHash, nextVNodeHash) ==
    IF nextVNodeHash < newVNodeHash
    THEN keyHash <= newVNodeHash /\ keyHash > nextVNodeHash
    ELSE keyHash <= newVNodeHash

\* shouldMove: whether a key with hash keyHash, held by the vNode nextVNodeHash,
\* now belongs to the vNode newVNodeHash inserted just before it.
shouldMove(keyHash, newVNodeHash, nextVNodeHash) ==
    IF nextVNodeHash < newVNodeHash
    THEN keyHash <= newVNodeHash /\ keyHash > nextVNodeHash
    ELSE \/ keyHash <= newVNodeHash
         \/ (keyHash > newVNodeHash /\ keyHash > nextVNodeHash)

\* The (node, vNode, key) triples of leaf n.
KeySlots(T, n) ==
    {nvk \in {n} \X (DOMAIN T.nodes[n].keys) \X Keys :
        nvk[3] \in DOMAIN T.nodes[n].keys[nvk[2]]}

\* remapSubringKeys: every key of every leaf below ring r, re-hashed at
\* `level`, moves to the new vNode when shouldMove says so.
RECURSIVE remapSubringKeys(_, _, _, _, _, _)
remapSubringKeys(T, r, level, newNode, newVNodeHash, nextVNodeHash) ==
    LET slot(T2, nvk) ==
            IF shouldMove(hash(nvk[3], level), newVNodeHash, nextVNodeHash)
            THEN moveKey(T2, nvk[3], hash(nvk[3], level), nvk[1], nvk[2],
                         newNode, newVNodeHash)
            ELSE T2
        member(T1, m) ==
            IF IsNode(T1, m)
            THEN ForEach(slot, AnyOf, T1, KeySlots(T1, m))
            ELSE remapSubringKeys(T1, m, level, newNode, newVNodeHash, nextVNodeHash)
    IN ForEach(member, AnyOf, T, T.rings[r].members)

\* The body of remapKeys once the next vNode is known.
remapFrom(T, r, newNode, newVNodeHash, next) ==
    LET one(T1, key) ==
            IF shouldMove(KeysAt(T1, next.id, next.hash)[key], newVNodeHash, next.hash)
            THEN moveKey(T1, key, KeysAt(T1, next.id, next.hash)[key],
                         next.id, next.hash, newNode, newVNodeHash)
            ELSE T1
    IN IF next.id \in T.rings[r].members /\ IsNode(T, next.id)
       THEN ForEach(one, AnyOf, T, DOMAIN KeysAt(T, next.id, next.hash))
       ELSE IF next.id \in T.rings[r].members /\ IsRing(T, next.id)
       THEN [remapSubringKeys(T, next.id, T.rings[r].level, newNode,
                              newVNodeHash, next.hash) EXCEPT !.err = ""]
       ELSE Fail(T, "next node is not valid for remapping")

\* remapKeys: after vNode newVNodeHash of newNode was put on r's circle, pull
\* from the next vNode the keys that now belong to the new one.
remapKeys(T, r, newNode, newVNodeHash) ==
    remapFrom(T, r, newNode, newVNodeHash,
              FindNextClosest(T.rings[r].circle, newVNodeHash))

(***************************************************************************)
(* InsertNode: add a fresh Node(id, threshold) and its vNodes to ring r,   *)
(* remapping after each vNode.                                             *)
(***************************************************************************)
putVNode(T, r, id, vNodeHash) ==
    [T EXCEPT !.rings[r].circle = CircleInsert(@, vNodeHash, id),
              !.nodes[id].keys = MapPut(@, vNodeHash, << >>)]

remapIfKeys(T, r, id, vNodeHash) ==
    IF Size(T, r) > 1 /\ ~IsEmpty(T, r)
    THEN remapKeys(T, r, id, vNodeHash)
    ELSE T

\* Faulty variant of addVNodes: the loop stops one replica short.
addVNodesShort(T, r, id, i) ==
    LET RECURSIVE loop(_, _)
        loop(Ta, j) ==
            IF j >= NumReplicas - 1 \/ Ta.err # "" THEN Ta
            ELSE loop(remapIfKeys(putVNode(Ta, r, id, hash(id, j)), r, id, hash(id, j)),
                      j + 1)
    IN loop(T, i)

RECURSIVE addVNodes(_, _, _, _)
addVNodes(T, r, id, i) ==
    IF i >= NumReplicas \/ T.err # "" THEN T
    ELSE addVNodes(remapIfKeys(putVNode(T, r, id, hash(id, i)), r, id, hash(id, i)),
                   r, id, i + 1)

\* Faulty variant of InsertNode: the membership check is missing.
InsertNodeUnchecked(T, r, id, threshold) ==
    IF Size(T, r) >= T.rings[r].maxCount
    THEN Fail(T, "ring is at capacity")
    ELSE addVNodes([T EXCEPT !.rings[r].members = @ \cup {id},
                             !.nodes = MapPut(@, id, NewNode(id, threshold))],
                   r, id, 0)

InsertNode(T, r, id, threshold) ==
    IF Size(T, r) >= T.rings[r].maxCount
    THEN Fail(T, "ring is at capacity")
    ELSE IF id \in T.rings[r].members
    THEN Fail(T, "node is already in the ring")
    ELSE addVNodes([T EXCEPT !.rings[r].members = @ \cup {id},
                             !.nodes = MapPut(@, id, NewNode(id, threshold))],
                   r, id, 0)

(***************************************************************************)
(* Results that are not error values of the Go code.                       *)
(***************************************************************************)
\* The operation needs more ids or levels than the model explores.
OutOfBounds == "out of model bounds"
\* A nil pointer or nil map is used: the Go runtime panics.
Panic == "panic"
\* The successor loop of RemoveNode never ends.
Hang == "hang"

\* NewNode("", threshold): the id comes from createId().
HasFreshId(T) == T.nextId < budget
TakeId(T) == [T EXCEPT !.nextId = @ + 1]

\* InsertNode(NewNode("", threshold)) as the overload path and splitNode call it.
addLeaf(T, r, threshold) ==
    IF T.err # "" THEN T
    ELSE IF ~HasFreshId(T) THEN Fail(T, OutOfBounds)
    ELSE InsertNode(TakeId(T), r, createId(T), threshold)

RECURSIVE InsertKey(_, _, _)

(***************************************************************************)
(* splitNode: replace the overloaded leaf `node` of ring r by a sub-ring   *)
(* with the same id, give it two fresh leaves and re-insert the old keys.  *)
(***************************************************************************)
\* Faulty variant of swapIn: the sub-ring gets the level of its parent.
swapInFlat(T, r, node) ==
    [T EXCEPT !.rings = MapPut(@, node, newRing(r, node, T.rings[r].level,
                                                T.rings[r].maxCount * branchFactor)),
              !.nodes = MapDel(@, node)]

\* Faulty variant of swapIn: branchFactor is added to maxCount, not multiplied.
swapInWider(T, r, node) ==
    [T EXCEPT !.rings = MapPut(@, node, newRing(r, node, T.rings[r].level + 1,
                                                T.rings[r].maxCount + branchFactor)),
              !.nodes = MapDel(@, node)]

\* r.members[node.id] = subring
swapIn(T, r, node) ==
    [T EXCEPT !.rings = MapPut(@, node, newRing(r, node, T.rings[r].level + 1,
                                                T.rings[r].maxCount * branchFactor)),
              !.nodes = MapDel(@, node)]

\* Faulty variant of reinsertAll: the old keys are not re-inserted.
reinsertNone(T, subring, oldKeys, ord) == T

reinsertAll(T, subring, oldKeys, ord) ==
    LET reinsert(Ta, key) == InsertKey(Ta, subring, key)
        vnode(Ta, v) ==
            ForEach(reinsert, LAMBDA S : PickStr(S, ord), Ta, DOMAIN oldKeys[v])
    IN ForEach(vnode, LAMBDA S : PickInt(S, ord), T, DOMAIN oldKeys)

splitNode(T, r, node) ==
    IF T.rings[r].level + 1 > MaxLevel
    THEN Fail(T, OutOfBounds)
    ELSE reinsertAll(addLeaf(addLeaf(swapIn(T, r, node), node, T.nodes[node].threshold),
                             node, T.nodes[node].threshold),
                     node, T.nodes[node].keys, T.ord)

(***************************************************************************)
(* InsertKey: store key on the leaf FindNode gives; when that leaf is      *)
(* overloaded, add a sibling leaf or split the leaf, and retry.            *)
(***************************************************************************)
\* Faulty variant of retry: after the sibling was added the key is not inserted.
retryDropped(T, r, key) == T

retry(T, r, key) == IF T.err # "" THEN T ELSE InsertKey(T, r, key)

\* Faulty variant of afterSplit: the key that caused the split is not inserted
\* into the new sub-ring.
afterSplitLost(T, subring, key) ==
    IF T.err = OutOfBounds THEN T
    ELSE IF T.err # "" THEN Fail(T, "expected subring, got nil or invalid object")
    ELSE T

afterSplit(T, subring, key) ==
    IF T.err = OutOfBounds THEN T
    ELSE IF T.err # "" THEN Fail(T, "expected subring, got nil or invalid object")
    ELSE InsertKey(T, subring, key)

insertAt(T, f, key) ==
    IF f.err # ""
    THEN Fail(T, Panic)     \* *keyHash and node.id are read before err is checked
    ELSE IF HasKey(T, f.node, f.vNodeHash, key)
    THEN Fail(T, "key is already in ring")
    ELSE IF T.nodes[f.node].load < T.nodes[f.node].threshold
    THEN IF f.vNodeHash \notin DOMAIN T.nodes[f.node].keys
         THEN Fail(T, Panic)     \* assignment to an entry of a nil map
         ELSE putKey(T, f.node, f.vNodeHash, key, f.keyHash)
    ELSE IF Size(T, f.ring) < T.rings[f.ring].maxCount
    THEN retry(addLeaf(T, f.ring, T.nodes[f.node].threshold), f.ring, key)
    ELSE afterSplit(splitNode(T, f.ring, f.node), f.node, key)

InsertKey(T, r, key) == insertAt(T, FindNode(T, r, key), key)

(***************************************************************************)
(* shouldCollapse / collapseRing: a sub-ring with fewer than two members,  *)
(* none of them a ring, is replaced in its parent by one leaf with the     *)
(* sub-ring's id; its keys are re-inserted through the parent.             *)
(***************************************************************************)
shouldCollapse(T, r) ==
    /\ Size(T, r) < 2
    /\ T.rings[r].parent # NoRing
    /\ \A m \in T.rings[r].members : ~IsRing(T, m)

\* The keys of all leaf members of r.
GatherKeys(T, r) ==
    {k \in Keys : \E m \in T.rings[r].members :
        IsNode(T, m) /\ \E v \in DOMAIN T.nodes[m].keys : k \in DOMAIN T.nodes[m].keys[v]}

\* The leaf that takes the place of sub-ring r: its id, the threshold of the
\* node RemoveNode was called with, an empty key map for each of its vNodes.
collapsedNode(r, threshold) ==
    [NewNode(r, threshold) EXCEPT
        !.keys = [v \in {hash(r, i) : i \in 0..(NumReplicas - 1)} |-> << >>]]

\* Clear r's leaves, drop r, and put the new leaf under r's id into the parent.
replaceByLeaf(T, r, node) ==
    [T EXCEPT
        !.nodes = MapPut([n \in DOMAIN @ |->
                             IF n \in T.rings[r].members
                             THEN [@[n] EXCEPT !.keys = << >>, !.load = 0]
                             ELSE @[n]],
                         r, collapsedNode(r, T.nodes[node].threshold)),
        !.rings = [MapDel(@, r) EXCEPT ![T.rings[r].parent].members = @ \cup {r}]]

reinsertThrough(T, parent, oldKeys, ord) ==
    LET wrap(Tb) ==
            IF Tb.err \in {"", OutOfBounds} THEN Tb
            ELSE Fail(Tb, "error inserting key into parent ring")
        reinsert(Ta, key) == wrap(InsertKey(Ta, parent, key))
    IN ForEach(reinsert, LAMBDA S : PickStr(S, ord), T, oldKeys)

collapseRing(T, r, node) ==
    IF Size(T, r) > 2
    THEN Fail(T, "can only collapse subrings with two or fewer nodes")
    ELSE IF T.rings[r].parent = NoRing
    THEN Fail(T, "cannot collapse root ring")
    ELSE reinsertThrough(replaceByLeaf(T, r, node), T.rings[r].parent,
                         GatherKeys(T, r), T.ord)

(***************************************************************************)
(* RemoveNode: drain the vNodes of `node` into their successors and take   *)
(* the node out of ring r; or collapse r.                                  *)
(***************************************************************************)
\* The successor loop: the first vNode clockwise after vNodeHash whose owner
\* is not id.  With only id's vNodes on the circle the loop never ends.
NextOther(c, vNodeHash, id) ==
    LET others == {h \in DOMAIN c : c[h] # id}
        gt == {h \in others : h > vNodeHash}
    IN IF DOMAIN c = {} THEN NoVNode
       ELSE IF others = {} THEN [hash |-> 0, id |-> Hang]
       ELSE IF gt = {} THEN [hash |-> Min(others), id |-> c[Min(others)]]
       ELSE [hash |-> Min(gt), id |-> c[Min(gt)]]

\* delete(node.keys, vNodeHash); r.circle.Delete(vNodeHash)
dropVNode(T, r, node, vNodeHash) ==
    IF T.err # "" THEN T
    ELSE [T EXCEPT !.nodes[node].keys = MapDel(@, vNodeHash),
                   !.rings[r].circle = CircleDelete(@, vNodeHash)]

\* Move the keys of one vNode of `node` to the vNode `next`.
drainTo(T, r, node, vNodeHash, next) ==
    LET move(Ta, key) ==
            moveKey(Ta, key, KeysAt(Ta, node, vNodeHash)[key], node, vNodeHash,
                    next.id, next.hash)
        push(Ta, key) ==
            InsertKey([Ta EXCEPT !.nodes[node].load = @ - 1], next.id, key)
    IN IF DOMAIN KeysAt(T, node, vNodeHash) = {} THEN T
       ELSE IF next.id = Hang THEN Fail(T, Hang)
       ELSE IF next.id = "" THEN Fail(T, "no valid next node found for remapping")
       ELSE IF next.id \in T.rings[r].members /\ IsNode(T, next.id)
       THEN ForEach(move, AnyOf, T, DOMAIN KeysAt(T, node, vNodeHash))
       ELSE IF next.id \in T.rings[r].members /\ IsRing(T, next.id)
       THEN ForEach(push, LAMBDA S : PickStr(S, T.ord), T,
                    DOMAIN KeysAt(T, node, vNodeHash))
       ELSE Fail(T, "next node is not valid")

drainVNode(T, r, node, vNodeHash) ==
    dropVNode(drainTo(T, r, node, vNodeHash,
                      NextOther(T.rings[r].circle, vNodeHash, T.nodes[node].id)),
              r, node, vNodeHash)

\* The end of RemoveNode, after the vNodes were drained.
detach(T, r, node) ==
    IF T.err # "" THEN T
    ELSE IF T.nodes[node].load # 0
    THEN Fail(T, "error removing keys from node")
    ELSE IF T.nodes[node].id \in T.rings[r].members
    THEN [T EXCEPT !.rings[r].members = @ \ {T.nodes[node].id}]
    ELSE Fail(T, "node not found in members during removal")

drainAll(T, r, node, ord) ==
    LET drain(Ta, v) == drainVNode(Ta, r, node, v)
    IN ForEach(drain, LAMBDA S : PickInt(S, ord), T, DOMAIN T.nodes[node].keys)

RemoveNode(T, r, node) ==
    IF Size(T, r) <= 1 /\ T.rings[r].parent = NoRing
    THEN Fail(T, "not enough nodes in the circle to perform remapping")
    ELSE IF shouldCollapse(T, r)
    THEN collapseRing(T, r, node)
    ELSE detach(drainAll(T, r, node, T.ord), r, node)

(***************************************************************************)
(* RemoveKey: delete key from its leaf; an underflowed leaf below the root *)
(* level is removed from its ring.                                         *)
(***************************************************************************)
\* int(float64(0.1) * float64(threshold))
underflowAt(threshold) == threshold \div 10

\* Faulty variant of underflow: the rule is applied to children of the root too.
underflowAnywhere(T, parent, node) ==
    IF T.nodes[node].load <= underflowAt(T.nodes[node].threshold)
    THEN RemoveNode(T, parent, node)
    ELSE T

\* Faulty variant of underflow: the load must be below the limit, not at it.
underflowStrict(T, parent, node) ==
    IF /\ T.nodes[node].load < underflowAt(T.nodes[node].threshold)
       /\ T.rings[parent].parent # NoRing
    THEN RemoveNode(T, parent, node)
    ELSE T

underflow(T, parent, node) ==
    IF /\ T.nodes[node].load <= underflowAt(T.nodes[node].threshold)
       /\ T.rings[parent].parent # NoRing
    THEN RemoveNode(T, parent, node)
    ELSE T

removeAt(T, f, key) ==
    IF f.err # "" THEN Fail(T, f.err)
    ELSE IF HasKey(T, f.node, f.vNodeHash, key)
    THEN underflow(dropKey(T, f.node, f.vNodeHash, key), f.ring, f.node)
    ELSE Fail(T, "key not found in the ring")

RemoveKey(T, r, key) == removeAt(T, FindNode(T, r, key), key)

(***************************************************************************)
(* The two backings of a Circle.  ArrayCircle keeps a slice of VNodes that *)
(* Sort orders by hash; its queries are binary searches (sort.Search).     *)
(* RBTreeCircle keeps a red-black tree whose Insert and Delete work top    *)
(* down, with rotations, on nodes linked by pointers: tree.node maps an    *)
(* address to a node, address 0 is nil.  Between two calls a node sits at  *)
(* the address key + 1; during a call the dummy head and a new node have   *)
(* addresses of their own.                                                 *)
(***************************************************************************)
Hashes == 0..MaxHash
OwnerIds == {IdPool[i] : i \in 1..MaxOwners}

\* sort.Search(n, f): the smallest index in [0, n) at which f holds, n when it
\* holds nowhere, found by bisection.
Search(n, f(_)) ==
    LET RECURSIVE narrow(_, _)
        narrow(i, j) ==
            IF i < j
            THEN IF ~f((i + j) \div 2)
                 THEN narrow((i + j) \div 2 + 1, j)
                 ELSE narrow(i, (i + j) \div 2)
            ELSE i
    IN narrow(0, n)

ArrayInsert(a, vNodeHash, nodeID) ==
    IF \E i \in 1..Len(a) : a[i].hash = vNodeHash
    THEN [vNodes |-> a, ret |-> FALSE]
    ELSE [vNodes |-> Append(a, [hash |-> vNodeHash, id |-> nodeID]), ret |-> TRUE]

\* sort.Slice by hash: the element with i - 1 smaller hashes comes i-th.
ArraySort(a) ==
    [i \in 1..Len(a) |->
        CHOOSE e \in {a[j] : j \in 1..Len(a)} :
            Cardinality({j \in 1..Len(a) : a[j].hash < e.hash}) = i - 1]

ArrayFindClosest(a, vNodeHash) ==
    IF Len(a) = 0 THEN NoVNode
    ELSE IF Search(Len(a), LAMBDA i : a[i + 1].hash >= vNodeHash) < Len(a)
    THEN a[Search(Len(a), LAMBDA i : a[i + 1].hash >= vNodeHash) + 1]
    ELSE a[1]

ArrayFindNextClosest(a, vNodeHash) ==
    IF Len(a) = 0 THEN NoVNode
    ELSE IF Search(Len(a), LAMBDA i : a[i + 1].hash > vNodeHash) < Len(a)
    THEN a[Search(Len(a), LAMBDA i : a[i + 1].hash > vNodeHash) + 1]
    ELSE a[1]

ArrayDelete(a, vNodeHash) ==
    IF \E i \in 1..Len(a) : a[i].hash = vNodeHash
    THEN [vNodes |-> SelectSeq(a, LAMBDA e : e.hash # vNodeHash), ret |-> TRUE]
    ELSE [vNodes |-> a, ret |-> FALSE]

ArraySize(a) == Len(a)

\* The array backing as the ring code drives it: Insert, then Sort.
ArrayInsertSorted(a, vNodeHash, nodeID) ==
    [vNodes |-> ArraySort(ArrayInsert(a, vNodeHash, nodeID).vNodes),
     ret |-> ArrayInsert(a, vNodeHash, nodeID).ret]

EmptyTree == [root |-> 0, size |-> 0, node |-> << >>]
HeadAt == MaxHash + 2
FreshAt == MaxHash + 3

redBlackNode(key, value, red) ==
    [key |-> key, value |-> value, left |-> 0, right |-> 0, red |-> red]

Child(h, n, right) == IF right THEN h[n].right ELSE h[n].left

setChild(h, n, right, node) ==
    IF right THEN [h EXCEPT ![n].right = node] ELSE [h EXCEPT ![n].left = node]

isRed(h, node) == node # 0 /\ h[node].red

\* Both rotations give the new heap and the address of the new subtree root.
\* Faulty variant of rotated: the two nodes keep their colours.
rotatedPlain(h, oldroot, newroot, dir) ==
    [h |-> setChild(setChild(h, oldroot, ~dir, Child(h, newroot, dir)),
                    newroot, dir, oldroot),
     root |-> newroot]

rotated(h, oldroot, newroot, dir) ==
    [h |-> [setChild(setChild(h, oldroot, ~dir, Child(h, newroot, dir)),
                     newroot, dir, oldroot)
                EXCEPT ![oldroot].red = TRUE, ![newroot].red = FALSE],
     root |-> newroot]

singleRotate(h, oldroot, dir) == rotated(h, oldroot, Child(h, oldroot, ~dir), dir)

doubleRotateFrom(r1, root, dir) ==
    singleRotate(setChild(r1.h, root, ~dir, r1.root), root, dir)

doubleRotate(h, root, dir) ==
    doubleRotateFrom(singleRotate(h, Child(h, root, ~dir), ~dir), root, dir)

RECURSIVE Reach(_, _)
Reach(h, node) ==
    IF node = 0 THEN {} ELSE {node} \cup Reach(h, h[node].left) \cup Reach(h, h[node].right)

\* The tree as it is kept between two calls: each node at the address key + 1.
Settled(h, root, size) ==
    LET at(a) == IF a = 0 THEN 0 ELSE h[a].key + 1
    IN [root |-> at(root), size |-> size,
        node |-> [x \in {at(a) : a \in Reach(h, root)} |->
                     [h[CHOOSE a \in Reach(h, root) : at(a) = x]
                         EXCEPT !.left = at(@), !.right = at(@)]]]

\* redBlackTree.Insert: one round of the descent.
insertEnter(s, key, value) ==
    IF s.node = 0
    THEN [s EXCEPT !.h = setChild(MapPut(s.h, FreshAt, redBlackNode(key, value, TRUE)),
                                  s.parent, s.dir, FreshAt),
                   !.node = FreshAt,
                   !.ret = TRUE]
    ELSE IF isRed(s.h, s.h[s.node].left) /\ isRed(s.h, s.h[s.node].right)
    THEN [s EXCEPT !.h = [@ EXCEPT ![s.node].red = TRUE,
                                   ![s.h[s.node].left].red = FALSE,
                                   ![s.h[s.node].right].red = FALSE]]
    ELSE s

insertHang(s, dir2, rot) == [s EXCEPT !.h = setChild(rot.h, s.ggparent, dir2, rot.root)]

insertFix(s) ==
    IF isRed(s.h, s.node) /\ isRed(s.h, s.parent)
    THEN IF s.node = Child(s.h, s.parent, s.last)
         THEN insertHang(s, s.h[s.ggparent].right = s.gparent,
                         singleRotate(s.h, s.gparent, ~s.last))
         ELSE insertHang(s, s.h[s.ggparent].right = s.gparent,
                         doubleRotate(s.h, s.gparent, ~s.last))
    ELSE s

RECURSIVE insertLoop(_, _, _)

insertAdvance(s, key, value) ==
    IF s.h[s.node].key = key THEN s
    ELSE insertLoop([s EXCEPT !.last = s.dir,
                              !.dir = key > s.h[s.node].key,
                              !.ggparent = IF s.gparent # 0 THEN s.gparent ELSE @,
                              !.gparent = s.parent,
                              !.parent = s.node,
                              !.node = Child(s.h, s.node, key > s.h[s.node].key)],
                    key, value)

insertLoop(s, key, value) == insertAdvance(insertFix(insertEnter(s, key, value)), key, value)

insertEnd(t, s) ==
    [tree |-> Settled([s.h EXCEPT ![s.h[HeadAt].right].red = FALSE], s.h[HeadAt].right,
                      IF s.ret THEN t.size + 1 ELSE t.size),
     ret |-> s.ret]

TreeInsert(t, key, value) ==
    IF t.root = 0
    THEN [tree |-> Settled((FreshAt :> redBlackNode(key, value, FALSE)), FreshAt, t.size + 1),
          ret |-> TRUE]
    ELSE insertEnd(t, insertLoop([h |-> [MapPut(t.node, HeadAt, redBlackNode(0, "", FALSE))
                                            EXCEPT ![HeadAt].right = t.root],
                                  dir |-> TRUE, last |-> TRUE, parent |-> 0, gparent |-> 0,
                                  ggparent |-> HeadAt, node |-> t.root, ret |-> FALSE],
                                 key, value))

\* redBlackTree.Delete: one round of the descent.
deleteStep(s, key) ==
    [s EXCEPT !.last = s.dir,
              !.gparent = s.parent,
              !.parent = s.node,
              !.node = Child(s.h, s.node, s.dir),
              !.found = IF s.h[Child(s.h, s.node, s.dir)].key = key
                        THEN Child(s.h, s.node, s.dir) ELSE @,
              !.dir = key > s.h[Child(s.h, s.node, s.dir)].key]

deleteLean(s, sr) == [s EXCEPT !.h = setChild(sr.h, s.parent, s.last, sr.root),
                               !.parent = sr.root]

deleteRecolor(s, h, gpc) ==
    [s EXCEPT !.h = [h EXCEPT ![gpc].red = TRUE, ![s.node].red = TRUE,
                              ![h[gpc].left].red = FALSE, ![h[gpc].right].red = FALSE]]

deleteHang(s, dir2, rot) ==
    deleteRecolor(s, setChild(rot.h, s.gparent, dir2, rot.root), rot.root)

deleteBorrow(s, sibling) ==
    IF sibling = 0 THEN s
    ELSE IF ~isRed(s.h, Child(s.h, sibling, ~s.last)) /\ ~isRed(s.h, Child(s.h, sibling, s.last))
    THEN [s EXCEPT !.h = [@ EXCEPT ![s.parent].red = FALSE, ![sibling].red = TRUE,
                                   ![s.node].red = TRUE]]
    ELSE IF isRed(s.h, Child(s.h, sibling, s.last))
    THEN deleteHang(s, s.h[s.gparent].right = s.parent, doubleRotate(s.h, s.parent, s.last))
    ELSE deleteHang(s, s.h[s.gparent].right = s.parent, singleRotate(s.h, s.parent, s.last))

deletePush(s) ==
    IF ~isRed(s.h, s.node) /\ ~isRed(s.h, Child(s.h, s.node, s.dir))
    THEN IF isRed(s.h, Child(s.h, s.node, ~s.dir))
         THEN deleteLean(s, singleRotate(s.h, s.node, s.dir))
         ELSE deleteBorrow(s, Child(s.h, s.parent, ~s.last))
    ELSE s

RECURSIVE deleteLoop(_, _)
deleteLoop(s, key) ==
    IF Child(s.h, s.node, s.dir) = 0 THEN s
    ELSE deleteLoop(deletePush(deleteStep(s, key)), key)

\* found.key = node.key; found.value = node.value; unlink node
deleteUnlink(s) ==
    IF s.found = 0 THEN s.h
    ELSE setChild([s.h EXCEPT ![s.found].key = s.h[s.node].key,
                              ![s.found].value = s.h[s.node].value],
                  s.parent, s.h[s.parent].right = s.node,
                  Child(s.h, s.node, s.h[s.node].left = 0))

deleteEnd(t, s, h) ==
    [tree |-> Settled(IF h[HeadAt].right # 0
                      THEN [h EXCEPT ![h[HeadAt].right].red = FALSE] ELSE h,
                      h[HeadAt].right,
                      IF s.found # 0 THEN t.size - 1 ELSE t.size),
     ret |-> s.found # 0]

deleteDone(t, s) == deleteEnd(t, s, deleteUnlink(s))

TreeDelete(t, key) ==
    IF t.root = 0 THEN [tree |-> t, ret |-> FALSE]
    ELSE deleteDone(t, deleteLoop([h |-> [MapPut(t.node, HeadAt, redBlackNode(0, "", TRUE))
                                             EXCEPT ![HeadAt].right = t.root],
                                   node |-> HeadAt, parent |-> 0, gparent |-> 0,
                                   found |-> 0, dir |-> TRUE, last |-> TRUE],
                                  key))

TreeSize(t) == t.size

RECURSIVE findMin(_, _)
findMin(t, h) ==
    IF h = 0 THEN 0
    ELSE IF t.node[h].left # 0 THEN findMin(t, t.node[h].left)
    ELSE h

\* What a query returns when it ends at node n; reading a field of nil panics.
entryAt(t, n) ==
    IF n = 0 THEN [hash |-> 0, id |-> Panic]
    ELSE [hash |-> t.node[n].key, id |-> t.node[n].value]

RECURSIVE closestFrom(_, _, _, _)
closestFrom(t, h, closest, key) ==
    IF h = 0 THEN entryAt(t, IF closest = 0 THEN findMin(t, t.root) ELSE closest)
    ELSE IF key < t.node[h].key THEN closestFrom(t, t.node[h].left, h, key)
    ELSE IF key > t.node[h].key THEN closestFrom(t, t.node[h].right, closest, key)
    ELSE entryAt(t, h)

TreeFindClosest(t, key) ==
    IF t.root = 0 THEN NoVNode ELSE closestFrom(t, t.root, 0, key)

RECURSIVE nextFrom(_, _, _, _)
nextFrom(t, currentNode, nextNode, key) ==
    IF currentNode = 0
    THEN entryAt(t, IF nextNode = 0 THEN findMin(t, t.root) ELSE nextNode)
    ELSE IF key < t.node[currentNode].key
    THEN nextFrom(t, t.node[currentNode].left, currentNode, key)
    ELSE nextFrom(t, t.node[currentNode].right, nextNode, key)

TreeFindNextClosest(t, key) == nextFrom(t, t.root, 0, key)

(***************************************************************************)
(* The program state as a heap, and what of a heap is still referenced.    *)
(***************************************************************************)
Heap(ord) ==
    [rings |-> rings, nodes |-> nodes, nextId |-> nextId, ord |-> ord, err |-> ""]

RECURSIVE RingsBelow(_, _)
RingsBelow(T, r) ==
    {r} \cup UNION {RingsBelow(T, m) : m \in {x \in T.rings[r].members : IsRing(T, x)}}

LeavesBelow(T, r) ==
    {n \in DOMAIN T.nodes : \E s \in RingsBelow(T, r) : n \in T.rings[s].members}

\* Objects no ring refers to any more are garbage.
Collect(T) ==
    [T EXCEPT !.rings = [s \in RingsBelow(T, RootId) |-> T.rings[s]],
              !.nodes = [n \in LeavesBelow(T, RootId) |-> T.nodes[n]]]

\* The load of the Node handle the caller passed, as the caller reads it.
LoadOf(ns, arg) == IF arg \in DOMAIN ns THEN ns[arg].load ELSE 0

\* What the history records of a call that returned err.
Remember(op, arg, err) ==
    /\ stored' = IF op = "InsertKey" /\ err = "" THEN stored \cup {arg}
                 ELSE IF op = "RemoveKey" THEN stored \ {arg}
                 ELSE stored
    /\ clean' = IF op \in {"InsertNode", "RemoveNode"} THEN {}
                ELSE IF op = "InsertKey" /\ err = "" THEN clean \cup {arg}
                ELSE IF op = "RemoveKey" THEN clean \ {arg}
                ELSE clean
    /\ gone' = IF op = "InsertKey" THEN gone \ {arg}
               ELSE IF op = "RemoveKey" /\ err = "" /\ arg \in clean THEN gone \cup {arg}
               ELSE gone
    /\ phase' = IF phase = "new" /\ op = "InsertNode" /\ err = "" THEN "grow"
                ELSE IF phase = "grow" /\ op = "InsertKey" /\ err = "" THEN "grow"
                ELSE IF phase \in {"grow", "drain"} /\ op = "RemoveKey" /\ err = ""
                THEN "drain"
                ELSE "any"

\* The call returned: its effect on the heap and its result.
Return(op, arg, T) ==
    /\ T.err # OutOfBounds
    /\ \A n \in DOMAIN T.nodes : T.nodes[n].load >= -MaxDeficit
    /\ rings' = Collect(T).rings
    /\ nodes' = Collect(T).nodes
    /\ nextId' = T.nextId
    /\ last' = [op |-> op, arg |-> arg, err |-> T.err, res |-> "",
                had |-> LoadOf(nodes, arg), load |-> LoadOf(T.nodes, arg),
                made |-> T.nextId - nextId]
    /\ Remember(op, arg, T.err)
    /\ UNCHANGED <<salt, budget>>
    /\ UNCHANGED circleVars
    /\ UNCHANGED taskVars

\* A query returned.
Answer(op, arg, err, res) ==
    /\ last' = [op |-> op, arg |-> arg, err |-> err, res |-> res, had |-> 0, load |-> 0,
                made |-> 0]
    /\ UNCHANGED ringVars
    /\ UNCHANGED circleVars
    /\ UNCHANGED taskVars

\* A run that uses no Circle on its own.
NoCircles == vNodes = << >> /\ tree = EmptyTree /\ entries = << >>

\* A run that starts no goroutine.
NoTasks == tasks = {} /\ visited = {} /\ wg = << >>

(***************************************************************************)
(* The specification: the calls a client makes on the root ring.           *)
(***************************************************************************)
Init ==
    /\ \E maxCount \in 0..MaxCount : rings = (RootId :> New(maxCount))
    /\ nodes = << >>
    /\ nextId = 0
    /\ budget = MaxIds
    /\ salt \in 0..(NumSalts - 1)
    /\ last = [op |-> "New", arg |-> "", err |-> "", res |-> "", had |-> 0, load |-> 0,
               made |-> 0]
    /\ stored = {}
    /\ clean = {}
    /\ gone = {}
    /\ phase = "new"
    /\ NoCircles
    /\ NoTasks

\* rt.InsertNode(NewNode("", threshold))
DoInsertNode ==
    \E threshold \in Thresholds :
        /\ HasFreshId(Heap("asc"))
        /\ Return("InsertNode", createId(Heap("asc")),
                  InsertNode(TakeId(Heap("asc")), RootId, createId(Heap("asc")), threshold))

\* rt.InsertNode(NewNode(id, threshold)) with the id of a member
DoInsertNodeAgain ==
    \E id \in rings[RootId].members, threshold \in Thresholds :
        Return("InsertNode", id, InsertNode(Heap("asc"), RootId, id, threshold))

\* rt.RemoveNode(node) with a leaf of the root
DoRemoveNode ==
    \E node \in rings[RootId].members \cap DOMAIN nodes, ord \in Orders :
        Return("RemoveNode", node, RemoveNode(Heap(ord), RootId, node))

DoInsertKey ==
    \E key \in Keys, ord \in Orders :
        Return("InsertKey", key, InsertKey(Heap(ord), RootId, key))

DoRemoveKey ==
    \E key \in Keys, ord \in Orders :
        Return("RemoveKey", key, RemoveKey(Heap(ord), RootId, key))

DoLookup ==
    \E key \in Keys :
        Answer("Lookup", key, Lookup(Heap("asc"), RootId, key).err,
               Lookup(Heap("asc"), RootId, key).id)

DoFindNode ==
    \E key \in Keys :
        Answer("FindNode", key, FindNode(Heap("asc"), RootId, key).err,
               FindNode(Heap("asc"), RootId, key).node)

Next ==
    \/ DoInsertNode
    \/ DoInsertNodeAgain
    \/ DoRemoveNode
    \/ DoInsertKey
    \/ DoRemoveKey
    \/ DoLookup
    \/ DoFindNode

Spec == Init /\ [][Next]_vars

(***************************************************************************)
(* A second specification: a client that starts with a root and one leaf   *)
(* (as TestCollapseRing does), inserts keys and then removes keys, and     *)
(* looks keys up in between.  It makes no other call, so its runs may use  *)
(* more ids and reach deeper trees.                                        *)
(***************************************************************************)
\* rt := New(maxCount); rt.InsertNode(NewNode("", threshold))
OneLeaf(maxCount, threshold) ==
    InsertNode([rings |-> (RootId :> New(maxCount)), nodes |-> << >>, nextId |-> 1,
                ord |-> "asc", err |-> ""],
               RootId, IdPool[1], threshold)

InitDrain ==
    /\ salt \in 0..(NumSalts - 1)
    /\ budget = MaxDrainIds
    /\ \E maxCount \in 0..MaxDrainCount, threshold \in Thresholds :
           /\ rings = OneLeaf(maxCount, threshold).rings
           /\ nodes = OneLeaf(maxCount, threshold).nodes
    /\ nextId = 1
    /\ last = [op |-> "InsertNode", arg |-> IdPool[1], err |-> "", res |-> "",
               had |-> 0, load |-> 0, made |-> 1]
    /\ stored = {}
    /\ clean = {}
    /\ gone = {}
    /\ phase = "grow"
    /\ NoCircles
    /\ NoTasks

FillKey == phase = "grow" /\ DoInsertKey

DrainKey == phase \in {"grow", "drain"} /\ stored # {} /\ DoRemoveKey

NextDrain ==
    \/ FillKey
    \/ DrainKey
    \/ DoLookup

SpecDrain == InitDrain /\ [][NextDrain]_vars

(***************************************************************************)
(* A third specification: a client of the Circle interface that makes the  *)
(* same calls on an ArrayCircle (with Sort after each Insert, as the ring  *)
(* code does), on an RBTreeCircle and on the ordered map they stand for.   *)
(* last records what each of the three returned.                           *)
(***************************************************************************)
\* A run that uses no ring.
NoRings ==
    /\ rings = (RootId :> New(2))
    /\ nodes = << >>
    /\ nextId = 0
    /\ budget = 0
    /\ salt = 0
    /\ stored = {}
    /\ clean = {}
    /\ gone = {}
    /\ phase = "new"

InitCircle ==
    /\ NoRings
    /\ NoCircles
    /\ NoTasks
    /\ last = [op |-> "NewCircle", arg |-> 0]

CallInsert ==
    \E vNodeHash \in Hashes, nodeID \in OwnerIds :
        /\ vNodes' = ArrayInsertSorted(vNodes, vNodeHash, nodeID).vNodes
        /\ tree' = TreeInsert(tree, vNodeHash, nodeID).tree
        /\ entries' = CircleInsert(entries, vNodeHash, nodeID)
        /\ last' = [op |-> "Insert", arg |-> vNodeHash,
                    array |-> ArrayInsertSorted(vNodes, vNodeHash, nodeID).ret,
                    rbtree |-> TreeInsert(tree, vNodeHash, nodeID).ret,
                    want |-> vNodeHash \notin DOMAIN entries]
        /\ UNCHANGED ringVars
        /\ UNCHANGED taskVars

CallDelete ==
    \E vNodeHash \in Hashes :
        /\ vNodes' = ArrayDelete(vNodes, vNodeHash).vNodes
        /\ tree' = TreeDelete(tree, vNodeHash).tree
        /\ entries' = CircleDelete(entries, vNodeHash)
        /\ last' = [op |-> "Delete", arg |-> vNodeHash,
                    array |-> ArrayDelete(vNodes, vNodeHash).ret,
                    rbtree |-> TreeDelete(tree, vNodeHash).ret,
                    want |-> vNodeHash \in DOMAIN entries]
        /\ UNCHANGED ringVars
        /\ UNCHANGED taskVars

CallFindClosest ==
    \E vNodeHash \in Hashes :
        /\ last' = [op |-> "FindClosest", arg |-> vNodeHash,
                    array |-> ArrayFindClosest(vNodes, vNodeHash),
                    rbtree |-> TreeFindClosest(tree, vNodeHash),
                    want |-> FindClosest(entries, vNodeHash)]
        /\ UNCHANGED ringVars
        /\ UNCHANGED circleVars
        /\ UNCHANGED taskVars

CallFindNextClosest ==
    \E vNodeHash \in Hashes :
        /\ last' = [op |-> "FindNextClosest", arg |-> vNodeHash,
                    array |-> ArrayFindNextClosest(vNodes, vNodeHash),
                    rbtree |-> TreeFindNextClosest(tree, vNodeHash),
                    want |-> FindNextClosest(entries, vNodeHash)]
        /\ UNCHANGED ringVars
        /\ UNCHANGED circleVars
        /\ UNCHANGED taskVars

NextCircle ==
    \/ CallInsert
    \/ CallDelete
    \/ CallFindClosest
    \/ CallFindNextClosest

SpecCircle == InitCircle /\ [][NextCircle]_vars

(***************************************************************************)
(* A fourth specification: a client grows a tree from one leaf and then    *)
(* calls Traversal(operation, 0) on one of its rings, the root or a        *)
(* sub-ring.  A goroutine is a stack of Traversal calls, the innermost     *)
(* last; its trail lists the calls (ring, level) that led to the innermost *)
(* one, across `go` statements.  The tree does not change during the walk, *)
(* so a call that has itself on its trail repeats what that call did.  The *)
(* model does not follow such a call.                                      *)
(***************************************************************************)
Top(g) == g.stack[Len(g.stack)]

setTop(g, pc) == [g EXCEPT !.stack[Len(g.stack)].pc = pc]

\* The innermost call of g was caused by a call on the same ring and level.
Recurs(g) == \E i \in 1..(Len(g.trail) - 1) : g.trail[i] = g.trail[Len(g.trail)]

\* r.Traversal(operation, level), about to run
traversal(r, level) == [ring |-> r, level |-> level, pc |-> "RLock"]

\* One goroutine goes from g to g2 and starts the goroutines of spawned.
Proceed(g, g2, spawned) == tasks' = ((tasks \ {g}) \cup g2) \cup spawned

StartTraversal ==
    \E r \in DOMAIN rings :
        /\ phase = "grow"
        /\ tasks' = {[stack |-> <<traversal(r, 0)>>, trail |-> << <<r, 0>> >>]}
        /\ phase' = "walk"
        /\ last' = [op |-> "Traversal", arg |-> r, err |-> "", res |-> "", had |-> 0,
                    load |-> 0, made |-> 0]
        /\ UNCHANGED <<rings, nodes, nextId, budget, salt, stored, clean, gone>>
        /\ UNCHANGED <<visited, wg>>
        /\ UNCHANGED circleVars

\* r.RLock(): no goroutine of the walk holds a ring exclusively.
TraversalRLock ==
    \E g \in tasks :
        /\ ~Recurs(g) /\ Top(g).pc = "RLock"
        /\ Proceed(g, {setTop(g, "range")}, {})
        /\ UNCHANGED <<visited, wg, last>>
        /\ UNCHANGED ringVars
        /\ UNCHANGED circleVars

\* for _, member := range r.members: operation(member) or go member.Traversal
TraversalRange ==
    \E g \in tasks :
        /\ ~Recurs(g) /\ Top(g).pc = "range"
        /\ visited' = visited \cup (rings[Top(g).ring].members \cap DOMAIN nodes)
        /\ Proceed(g, {setTop(g, "parent")},
                   {[stack |-> <<traversal(m, Top(g).level + 1)>>,
                     trail |-> Append(g.trail, <<m, Top(g).level + 1>>)] :
                        m \in rings[Top(g).ring].members \cap DOMAIN rings})
        /\ UNCHANGED <<wg, last>>
        /\ UNCHANGED ringVars
        /\ UNCHANGED circleVars

\* if r.parent != nil && level == 0 { r.parent.Traversal(operation, level-1) }
TraversalParent ==
    \E g \in tasks :
        /\ ~Recurs(g) /\ Top(g).pc = "parent"
        /\ IF rings[Top(g).ring].parent # NoRing /\ Top(g).level = 0
           THEN Proceed(g, {[stack |-> Append(setTop(g, "RUnlock").stack,
                                              traversal(rings[Top(g).ring].parent,
                                                        Top(g).level - 1)),
                             trail |-> Append(g.trail, <<rings[Top(g).ring].parent,
                                                         Top(g).level - 1>>)]}, {})
           ELSE Proceed(g, {setTop(g, "RUnlock")}, {})
        /\ UNCHANGED <<visited, wg, last>>
        /\ UNCHANGED ringVars
        /\ UNCHANGED circleVars

\* defer r.RUnlock(), and the call returns
TraversalRUnlock ==
    \E g \in tasks :
        /\ ~Recurs(g) /\ Top(g).pc = "RUnlock"
        /\ IF Len(g.stack) = 1
           THEN Proceed(g, {}, {})
           ELSE Proceed(g, {[g EXCEPT !.stack = SubSeq(@, 1, Len(@) - 1)]}, {})
        /\ UNCHANGED <<visited, wg, last>>
        /\ UNCHANGED ringVars
        /\ UNCHANGED circleVars

NextTraversal ==
    \/ FillKey
    \/ StartTraversal
    \/ TraversalRLock
    \/ TraversalRange
    \/ TraversalParent
    \/ TraversalRUnlock

SpecTraversal == InitDrain /\ [][NextTraversal]_vars

(***************************************************************************)
(* A fifth specification: a client grows a tree from one leaf and then     *)
(* calls ParallelGossip(message, &wg) on one of its rings, as TestGossip   *)
(* does on the root.  Every call of ParallelGossip has a WaitGroup of its  *)
(* own, childWg; a WaitGroup is named by the chain of rings whose calls    *)
(* led to the call that declared it (inv), the caller's one by << >>.  wg  *)
(* maps the name of a WaitGroup to its counter.  A counter below zero is   *)
(* the panic "sync: negative WaitGroup counter", which ends the program.   *)
(* Calls further than MaxHops down a chain are not followed.               *)
(***************************************************************************)
Count(name) == IF name \in DOMAIN wg THEN wg[name] ELSE 0

\* wg.Add(delta); Done() is Add(-1)
WaitGroupAdd(name, delta) == MapPut(wg, name, Count(name) + delta)

Crashed == \E name \in DOMAIN wg : wg[name] < 0

goroutine(kind, r, inv, name) ==
    [kind |-> kind, ring |-> r, inv |-> inv, wg |-> name, pc |-> "start", todo |-> {},
     cur |-> ""]

Followed(g) == ~Crashed /\ Len(g.inv) <= MaxHops

StartGossip ==
    \E r \in DOMAIN rings, added \in 0..MaxAdded :
        /\ phase = "grow"
        /\ tasks' = {goroutine("ParallelGossip", r, <<r>>, << >>)}
        /\ wg' = (<< >> :> added)
        /\ phase' = "talk"
        /\ last' = [op |-> "ParallelGossip", arg |-> r, err |-> "", res |-> "", had |-> 0,
                    load |-> 0, made |-> 0]
        /\ UNCHANGED <<rings, nodes, nextId, budget, salt, stored, clean, gone>>
        /\ UNCHANGED visited
        /\ UNCHANGED circleVars

\* if r.parent != nil { go r.parent.ReceiveMessage(message, wg) }
GossipParent ==
    \E g \in tasks :
        /\ Followed(g) /\ g.kind = "ParallelGossip" /\ g.pc = "start"
        /\ Proceed(g, {[g EXCEPT !.pc = "range", !.todo = rings[g.ring].members]},
                   IF rings[g.ring].parent # NoRing
                   THEN {goroutine("ReceiveMessage", rings[g.ring].parent, g.inv, g.wg)}
                   ELSE {})
        /\ UNCHANGED <<visited, wg, last>>
        /\ UNCHANGED ringVars
        /\ UNCHANGED circleVars

\* the go statement of the loop over r.members, for one member
GossipGo ==
    \E g \in tasks : \E member \in g.todo :
        /\ Followed(g) /\ g.kind = "ParallelGossip" /\ g.pc = "range"
        /\ Proceed(g, {[g EXCEPT !.pc = "Add", !.cur = member]},
                   IF member \in DOMAIN nodes
                   THEN {goroutine("Node", member, g.inv, g.inv)}
                   ELSE {goroutine("ParallelGossip", member, Append(g.inv, member), g.inv)})
        /\ UNCHANGED <<visited, wg, last>>
        /\ UNCHANGED ringVars
        /\ UNCHANGED circleVars

\* childWg.Add(1), after the go statement
GossipAdd ==
    \E g \in tasks :
        /\ Followed(g) /\ g.kind = "ParallelGossip" /\ g.pc = "Add"
        /\ wg' = WaitGroupAdd(g.inv, 1)
        /\ Proceed(g, {[g EXCEPT !.pc = "range", !.todo = @ \ {g.cur}, !.cur = ""]}, {})
        /\ UNCHANGED <<visited, last>>
        /\ UNCHANGED ringVars
        /\ UNCHANGED circleVars

\* childWg.Wait() returns when the counter is zero
GossipWait ==
    \E g \in tasks :
        /\ Followed(g) /\ g.kind = "ParallelGossip" /\ g.pc = "range" /\ g.todo = {}
        /\ Count(g.inv) = 0
        /\ Proceed(g, {[g EXCEPT !.pc = "Done"]}, {})
        /\ UNCHANGED <<visited, wg, last>>
        /\ UNCHANGED ringVars
        /\ UNCHANGED circleVars

\* defer wg.Done(), and the call returns
GossipDone ==
    \E g \in tasks :
        /\ Followed(g) /\ g.kind = "ParallelGossip" /\ g.pc = "Done"
        /\ wg' = WaitGroupAdd(g.wg, -1)
        /\ Proceed(g, {}, {})
        /\ UNCHANGED <<visited, last>>
        /\ UNCHANGED ringVars
        /\ UNCHANGED circleVars

\* go func(node *Node) { defer childWg.Done(); node.ReceiveMessage(message) }
NodeReceiveMessage ==
    \E g \in tasks :
        /\ Followed(g) /\ g.kind = "Node"
        /\ visited' = visited \cup {g.ring}
        /\ wg' = WaitGroupAdd(g.wg, -1)
        /\ Proceed(g, {}, {})
        /\ UNCHANGED last
        /\ UNCHANGED ringVars
        /\ UNCHANGED circleVars

\* Ring.ReceiveMessage: wg.Add(1); go r.ParallelGossip(message, wg)
RingReceiveMessage ==
    \E g \in tasks :
        /\ Followed(g) /\ g.kind = "ReceiveMessage"
        /\ wg' = WaitGroupAdd(g.wg, 1)
        /\ Proceed(g, {}, {goroutine("ParallelGossip", g.ring, Append(g.inv, g.ring), g.wg)})
        /\ UNCHANGED <<visited, last>>
        /\ UNCHANGED ringVars
        /\ UNCHANGED circleVars

NextGossip ==
    \/ FillKey
    \/ StartGossip
    \/ GossipParent
    \/ GossipGo
    \/ GossipAdd
    \/ GossipWait
    \/ GossipDone
    \/ NodeReceiveMessage
    \/ RingReceiveMessage

SpecGossip == InitDrain /\ [][NextGossip]_vars

(***************************************************************************)
(* A sixth specification: a client grows a tree from one leaf and then     *)
(* starts MaxThreads goroutines, each making one call on the root:         *)
(* InsertKey, RemoveKey or FindNode.  A goroutine takes one step per       *)
(* critical section of the code, and one step per statement of splitNode,  *)
(* which holds the lock of its ring from its first statement to its        *)
(* return.  FindNode holds the shared locks of the rings it has entered    *)
(* until it returns, so it acts at the moment it gets the last of them: it *)
(* is one step, taken when no other goroutine holds one of these rings     *)
(* exclusively.  A goroutine whose leaf was taken out of its ring by       *)
(* another goroutine works on an object that is no part of the tree; the   *)
(* model does not follow it.                                               *)
(***************************************************************************)
Calls == {"InsertKey", "RemoveKey", "FindNode"}

\* go rt.<op>(key), about to run
call(id, op, key) ==
    [id |-> id, op |-> op, key |-> key, pc |-> "find", from |-> RootId, node |-> "",
     ring |-> NoRing, vNodeHash |-> 0, keyHash |-> 0, held |-> {}, shared |-> {},
     err |-> "", threshold |-> 0, oldKeys |-> << >>, todo |-> << >>]

\* The rings other goroutines hold exclusively (sync.RWMutex.Lock).
HeldByOthers(g) == UNION {h.held : h \in tasks \ {g}}

\* The rings other goroutines hold shared (sync.RWMutex.RLock) from one step
\* to the next: none where FindNode is one step.
SharedByOthers(g) == UNION {h.shared : h \in tasks \ {g}}

\* Faulty variant of Blocked: Lock and RLock do not wait.
BlockedNever(g, S) == FALSE

\* r.Lock() on a ring of S has to wait; and r.RLock(), by a FindNode that is
\* one step.
Blocked(g, S) == S \cap (HeldByOthers(g) \cup SharedByOthers(g)) # {}

\* The rings FindNode(key) enters from ring r, each under its shared lock.
RECURSIVE Path(_, _, _)
Path(T, r, key) ==
    LET c == FindClosest(T.rings[r].circle, hash(key, T.rings[r].level))
    IN IF Size(T, r) # 0 /\ c.id \in T.rings[r].members /\ IsRing(T, c.id)
       THEN {r} \cup Path(T, c.id, key)
       ELSE {r}

\* The leaf and the ring FindNode gave g are still a leaf and its ring.
Live(g) ==
    /\ g.ring \in DOMAIN rings
    /\ g.node \in DOMAIN nodes
    /\ g.node \in rings[g.ring].members

\* Goroutine g takes a step that leaves the tree as T and g as g2; during
\* the step g held the rings of `held` exclusively.
Step(g, g2, T, held) ==
    /\ T.err # OutOfBounds
    /\ \A n \in DOMAIN T.nodes : T.nodes[n].load >= -MaxDeficit
    /\ rings' = Collect(T).rings
    /\ nodes' = Collect(T).nodes
    /\ nextId' = T.nextId
    /\ tasks' = (tasks \ {g}) \cup {g2}
    /\ last' = [op |-> g.op, thread |-> g.id, pc |-> g.pc, held |-> held]
    /\ UNCHANGED <<budget, salt, stored, clean, gone, phase, visited, wg>>
    /\ UNCHANGED circleVars

\* rt := New(maxCount); rt.InsertNode(NewNode("", threshold))
InitRace ==
    /\ salt \in 0..(NumSalts - 1)
    /\ budget = MaxRaceIds
    /\ \E threshold \in 1..MaxRaceThreshold :
           /\ rings = OneLeaf(2, threshold).rings
           /\ nodes = OneLeaf(2, threshold).nodes
    /\ nextId = 1
    /\ last = [op |-> "InsertNode", arg |-> IdPool[1], err |-> "", res |-> "",
               had |-> 0, load |-> 0, made |-> 1]
    /\ stored = {}
    /\ clean = {}
    /\ gone = {}
    /\ phase = "grow"
    /\ NoCircles
    /\ NoTasks

\* go rt.<op1>(key1); go rt.<op2>(key2); ...
StartCalls ==
    /\ phase = "grow"
    /\ \E ops \in [1..MaxThreads -> Calls], keys \in [1..MaxThreads -> Keys] :
           tasks' = {call(i, ops[i], keys[i]) : i \in 1..MaxThreads}
    /\ phase' = "race"
    /\ last' = [op |-> "go", thread |-> 0, pc |-> "", held |-> {}]
    /\ UNCHANGED <<rings, nodes, nextId, budget, salt, stored, clean, gone>>
    /\ UNCHANGED <<visited, wg>>
    /\ UNCHANGED circleVars

\* What FindNode returned to the call of g.
afterFind(g, f) ==
    [g EXCEPT !.node = f.node, !.ring = f.ring, !.vNodeHash = f.vNodeHash,
              !.keyHash = f.keyHash,
              !.err = IF g.op = "InsertKey" /\ f.err # "" THEN Panic ELSE f.err,
              !.pc = IF g.op = "FindNode" \/ f.err # "" THEN "done"
                     ELSE IF g.op = "InsertKey" THEN "check"
                     ELSE "lock"]

\* r.FindNode(key), by itself or as the first statement of InsertKey, RemoveKey
CallFindNode ==
    \E g \in tasks :
        /\ g.pc = "find"
        /\ g.from \in DOMAIN rings
        /\ ~Blocked(g, Path(Heap("asc"), g.from, g.key))
        /\ Step(g, afterFind(g, FindNode(Heap("asc"), g.from, g.key)), Heap("asc"), {})

\* InsertKey: if node.keys[vNodeHash][key] != nil, read without a lock
InsertKeyCheck ==
    \E g \in tasks :
        /\ g.op = "InsertKey" /\ g.pc = "check"
        /\ Live(g)
        /\ Step(g,
                IF HasKey(Heap("asc"), g.node, g.vNodeHash, g.key)
                THEN [g EXCEPT !.pc = "done", !.err = "key is already in ring"]
                ELSE [g EXCEPT !.pc = "lock"],
                Heap("asc"), {})

\* InsertKey: parent.Lock(), store or choose how to make room, parent.Unlock()
InsertKeyLock ==
    \E g \in tasks :
        /\ g.op = "InsertKey" /\ g.pc = "lock"
        /\ Live(g)
        /\ ~Blocked(g, {g.ring})
        /\ IF nodes[g.node].load < nodes[g.node].threshold
           THEN IF g.vNodeHash \notin DOMAIN nodes[g.node].keys
                THEN Step(g, [g EXCEPT !.pc = "done", !.err = Panic], Heap("asc"),
                          {g.ring})
                ELSE Step(g, [g EXCEPT !.pc = "done"],
                          putKey(Heap("asc"), g.node, g.vNodeHash, g.key, g.keyHash),
                          {g.ring})
           ELSE Step(g, [g EXCEPT !.threshold = nodes[g.node].threshold,
                                  !.pc = IF Size(Heap("asc"), g.ring) < rings[g.ring].maxCount
                                         THEN "grow" ELSE "split"],
                     Heap("asc"), {g.ring})

\* InsertKey: parent.InsertNode(NewNode), then parent.InsertKey(key)
InsertKeyGrow ==
    \E g \in tasks :
        /\ g.pc = "grow"
        /\ g.ring \in DOMAIN rings
        /\ ~Blocked(g, {g.ring})
        /\ LET T == addLeaf(Heap("asc"), g.ring, g.threshold)
           IN Step(g,
                   IF T.err # "" THEN [g EXCEPT !.pc = "done", !.err = T.err]
                   ELSE [g EXCEPT !.pc = "find", !.from = g.ring],
                   T, {g.ring})

\* splitNode: r.Lock(); r.members[node.id] = subring
SplitNodeLock ==
    \E g \in tasks :
        /\ g.pc = "split"
        /\ Live(g)
        /\ ~Blocked(g, {g.ring})
        /\ rings[g.ring].level + 1 <= MaxLevel
        /\ Step(g, [g EXCEPT !.pc = "leaf1", !.held = {g.ring},
                             !.oldKeys = nodes[g.node].keys],
                swapIn(Heap("asc"), g.ring, g.node), {g.ring})

\* splitNode: subring.InsertNode(NewNode("", node.threshold)), twice
SplitNodeLeaf ==
    \E g \in tasks :
        /\ g.pc \in {"leaf1", "leaf2"}
        /\ LET T == addLeaf(Heap("asc"), g.node, g.threshold)
           IN Step(g,
                   IF T.err # ""
                   THEN [g EXCEPT !.pc = "done", !.held = {},
                                  !.err = "expected subring, got nil or invalid object"]
                   ELSE [g EXCEPT !.pc = IF g.pc = "leaf1" THEN "leaf2" ELSE "reinsert"],
                   T, {g.ring, g.node})

\* splitNode: re-insert the old keys, return (r.Unlock()); then
\* subring.InsertKey(key)
SplitNodeReinsert ==
    \E g \in tasks, ord \in Orders :
        /\ g.pc = "reinsert"
        /\ LET T == reinsertAll(Heap(ord), g.node, g.oldKeys, ord)
           IN Step(g,
                   IF T.err # ""
                   THEN [g EXCEPT !.pc = "done", !.held = {},
                                  !.err = "expected subring, got nil or invalid object"]
                   ELSE [g EXCEPT !.pc = "find", !.from = g.node, !.held = {}],
                   T, {g.ring} \cup (DOMAIN T.rings \cap RingsBelow(T, g.node)))

\* RemoveKey: parent.Lock(), delete the key, parent.Unlock()
RemoveKeyLock ==
    \E g \in tasks :
        /\ g.op = "RemoveKey" /\ g.pc = "lock"
        /\ Live(g)
        /\ ~Blocked(g, {g.ring})
        /\ IF HasKey(Heap("asc"), g.node, g.vNodeHash, g.key)
           THEN Step(g, [g EXCEPT !.pc =
                            IF /\ nodes[g.node].load - 1 <=
                                      underflowAt(nodes[g.node].threshold)
                               /\ rings[g.ring].parent # NoRing
                            THEN "remove" ELSE "done"],
                     dropKey(Heap("asc"), g.node, g.vNodeHash, g.key), {g.ring})
           ELSE Step(g, [g EXCEPT !.pc = "done", !.err = "key not found in the ring"],
                     Heap("asc"), {g.ring})

\* The rings whose lock the calls RemoveNode makes on other rings take: the
\* InsertKey calls that push keys into a neighbouring sub-ring, or, in a
\* collapse, that re-insert the gathered keys through the parent.
LockedBelow(T, r) ==
    IF shouldCollapse(T, r)
    THEN IF GatherKeys(T, r) = {} THEN {} ELSE RingsBelow(T, T.rings[r].parent) \ {r}
    ELSE RingsBelow(T, r) \ {r}

\* RemoveKey: parent.RemoveNode(node), of the leaf that underflowed
RemoveKeyUnderflow ==
    \E g \in tasks, ord \in Orders :
        /\ g.pc = "remove"
        /\ Live(g)
        /\ ~Blocked(g, DOMAIN rings)
        /\ LET T == RemoveNode(Heap(ord), g.ring, g.node)
           IN Step(g, [g EXCEPT !.pc = "done", !.err = T.err], T,
                   {g.ring} \cup LockedBelow(Heap(ord), g.ring))

NextRace ==
    \/ FillKey
    \/ StartCalls
    \/ CallFindNode
    \/ InsertKeyCheck
    \/ InsertKeyLock
    \/ InsertKeyGrow
    \/ SplitNodeLock
    \/ SplitNodeLeaf
    \/ SplitNodeReinsert
    \/ RemoveKeyLock
    \/ RemoveKeyUnderflow

SpecRace == InitRace /\ [][NextRace]_vars

(***************************************************************************)
(* A seventh specification: the client of SpecDrain, that may also call    *)
(* RemoveNode on a sub-ring, with the ring and the leaf FindNode returned  *)
(* for a key.  On a sub-ring with one leaf the call collapses the ring     *)
(* while the leaf still holds keys.                                        *)
(***************************************************************************)
\* A call made on ring r below the root returned: as Return, and the record
\* of the call names r.
ReturnOn(r, op, arg, T) ==
    /\ T.err # OutOfBounds
    /\ \A n \in DOMAIN T.nodes : T.nodes[n].load >= -MaxDeficit
    /\ rings' = Collect(T).rings
    /\ nodes' = Collect(T).nodes
    /\ nextId' = T.nextId
    /\ last' = [op |-> op, arg |-> arg, err |-> T.err, res |-> r,
                had |-> LoadOf(nodes, arg), load |-> LoadOf(T.nodes, arg),
                made |-> T.nextId - nextId]
    /\ Remember(op, arg, T.err)
    /\ UNCHANGED <<salt, budget>>
    /\ UNCHANGED circleVars
    /\ UNCHANGED taskVars

\* node, sub, _, _, _ := rt.FindNode(key); sub.RemoveNode(node)
DoRemoveNodeBelow ==
    \E key \in Keys, ord \in Orders :
        /\ FindNode(Heap(ord), RootId, key).err = ""
        /\ FindNode(Heap(ord), RootId, key).ring # RootId
        /\ ReturnOn(FindNode(Heap(ord), RootId, key).ring, "RemoveNode",
                    FindNode(Heap(ord), RootId, key).node,
                    RemoveNode(Heap(ord), FindNode(Heap(ord), RootId, key).ring,
                               FindNode(Heap(ord), RootId, key).node))

NextCollapse ==
    \/ FillKey
    \/ DrainKey
    \/ DoLookup
    \/ DoRemoveNodeBelow

SpecCollapse == InitDrain /\ [][NextCollapse]_vars

(***************************************************************************)
(* An eighth specification: the client of SpecDrain, that also removes     *)
(* members it knows by id only (rt.Members() returns ids, RemoveNode takes *)
(* a *Node, so the client makes a Node with the id), and leaves that       *)
(* FindNode returned, which may be leaves of a sub-ring.                   *)
(***************************************************************************)
\* Where the heap keeps a Node the client made and did not insert.
Made == "made"

\* rt.RemoveNode(NewNode(id, threshold)) with an id of rt.Members(), or with
\* an id that names no member
DoRemoveNodeMade ==
    \E id \in {IdPool[i] : i \in 1..MaxDrainIds}, threshold \in Thresholds, ord \in Orders :
        Return("RemoveNode", id,
               RemoveNode([Heap(ord) EXCEPT !.nodes = MapPut(@, Made, NewNode(id, threshold))],
                          RootId, Made))

\* node, _, _, _, _ := rt.FindNode(key); rt.RemoveNode(node)
DoRemoveNodeFound ==
    \E key \in Keys, ord \in Orders :
        /\ FindNode(Heap(ord), RootId, key).err = ""
        /\ Return("RemoveNode", FindNode(Heap(ord), RootId, key).node,
                  RemoveNode(Heap(ord), RootId, FindNode(Heap(ord), RootId, key).node))

NextMembers ==
    \/ FillKey
    \/ DrainKey
    \/ DoLookup
    \/ DoRemoveNodeMade
    \/ DoRemoveNodeFound

SpecMembers == InitDrain /\ [][NextMembers]_vars

(***************************************************************************)
(* A ninth specification: a client grows a tree from one leaf and then     *)
(* makes one InsertKey call on the root, which is followed statement by    *)
(* statement as in SpecRace.  No other goroutine runs: the call is         *)
(* sequential.  Its key is one of Keys or Twin, a string that hashes like  *)
(* KeyPool[1] at every level.                                              *)
(***************************************************************************)
\* rt.InsertKey(key), about to run
StartRetry ==
    /\ phase = "grow"
    /\ \E key \in Keys \cup {Twin} : tasks' = {call(1, "InsertKey", key)}
    /\ phase' = "race"
    /\ last' = [op |-> "go", thread |-> 0, pc |-> "", held |-> {}]
    /\ UNCHANGED <<rings, nodes, nextId, budget, salt, stored, clean, gone>>
    /\ UNCHANGED <<visited, wg>>
    /\ UNCHANGED circleVars

NextRetry ==
    \/ FillKey
    \/ StartRetry
    \/ CallFindNode
    \/ InsertKeyCheck
    \/ InsertKeyLock
    \/ InsertKeyGrow
    \/ SplitNodeLock
    \/ SplitNodeLeaf
    \/ SplitNodeReinsert

SpecRetry == InitRace /\ [][NextRetry]_vars

(***************************************************************************)
(* A tenth specification: a client grows a tree from one leaf, removes     *)
(* keys, and then starts three goroutines on the root: one calls RemoveKey *)
(* with a key that is stored, one InsertKey with a key that is not, and    *)
(* one FindNode or Lookup with any key.  The steps are                     *)
(* those of SpecRace, but the locks are followed more closely.  FindNode   *)
(* takes the shared lock of one ring per step and keeps the locks of the   *)
(* rings it has entered until it returns (defer r.RUnlock()).  RemoveNode  *)
(* keeps the exclusive lock of its ring (defer r.Unlock()) while           *)
(* collapseRing re-inserts the gathered keys with r.parent.InsertKey, one  *)
(* FindNode and one store per key.  A lock is requested when the step that *)
(* takes it is taken, so a request never waits behind a later one.         *)
(***************************************************************************)
\* What the three goroutines call.
LockCalls == <<{"RemoveKey"}, {"InsertKey"}, {"FindNode", "Lookup"}>>

\* go rt.RemoveKey(key1); go rt.InsertKey(key2); go rt.FindNode(key3)
StartLocks ==
    /\ phase \in {"grow", "drain"}
    /\ \E ops \in [DOMAIN LockCalls -> UNION {LockCalls[i] : i \in DOMAIN LockCalls}],
          keys \in [DOMAIN LockCalls -> Keys] :
           /\ \A i \in DOMAIN LockCalls : ops[i] \in LockCalls[i]
           /\ keys[1] \in stored
           /\ keys[2] \notin stored
           /\ tasks' = {call(i, ops[i], keys[i]) : i \in DOMAIN LockCalls}
    /\ phase' = "race"
    /\ last' = [op |-> "go", thread |-> 0, pc |-> "", held |-> {}]
    /\ UNCHANGED <<rings, nodes, nextId, budget, salt, stored, clean, gone>>
    /\ UNCHANGED <<visited, wg>>
    /\ UNCHANGED circleVars

\* The member the Circle of ring r gives for key.
closest(T, r, key) == FindClosest(T.rings[r].circle, hash(key, T.rings[r].level))

\* FindNode has to go on in a sub-ring of r.
descends(T, r, key) ==
    /\ r \in DOMAIN T.rings
    /\ Size(T, r) # 0
    /\ closest(T, r, key).id \in T.rings[r].members
    /\ IsRing(T, closest(T, r, key).id)

\* What FindNode returns from ring r when it does not go on in a sub-ring; a
\* ring that was collapsed has no members.
found(T, r, key) ==
    IF r \in DOMAIN T.rings THEN FindNode(T, r, key) ELSE NotFound("ring is empty")

\* FindNode: r.RLock(), look the key up on the Circle, and either call
\* FindNode of the sub-ring found, with r still locked, or return
FindNodeEnter ==
    \E g \in tasks :
        /\ g.pc = "find"
        /\ g.from \notin HeldByOthers(g)
        /\ Step(g,
                IF descends(Heap("asc"), g.from, g.key)
                THEN [g EXCEPT !.shared = @ \cup {g.from},
                               !.from = closest(Heap("asc"), g.from, g.key).id]
                ELSE [afterFind(g, found(Heap("asc"), g.from, g.key)) EXCEPT !.shared = {}],
                Heap("asc"), {})

\* Lookup: parent.RLock(), read node.keys[vNodeHash][key], parent.RUnlock()
LookupRead ==
    \E g \in tasks :
        /\ g.op = "Lookup" /\ g.pc = "lock"
        /\ Live(g)
        /\ g.ring \notin HeldByOthers(g)
        /\ Step(g, [g EXCEPT !.pc = "done",
                             !.err = IF HasKey(Heap("asc"), g.node, g.vNodeHash, g.key)
                                     THEN "" ELSE "key not found"],
                Heap("asc"), {})

\* The keys of S as Go ranges over them.
RECURSIVE InOrder(_, _)
InOrder(S, ord) ==
    IF S = {} THEN << >>
    ELSE <<PickStr(S, ord)>> \o InOrder(S \ {PickStr(S, ord)}, ord)

\* RemoveKey: parent.RemoveNode(node).  r.Lock(); a ring that should
\* collapse and holds keys is replaced by a leaf and stays locked for the
\* re-insertion of the keys; any other removal is made in this step.
RemoveNodeLock ==
    \E g \in tasks, ord \in Orders :
        /\ g.pc = "remove"
        /\ Live(g)
        /\ ~Blocked(g, {g.ring})
        /\ IF shouldCollapse(Heap(ord), g.ring) /\ GatherKeys(Heap(ord), g.ring) # {}
           THEN Step(g, [g EXCEPT !.pc = "refind", !.held = {g.ring},
                                  !.from = rings[g.ring].parent,
                                  !.todo = InOrder(GatherKeys(Heap(ord), g.ring), ord)],
                     replaceByLeaf(Heap(ord), g.ring, g.node), {g.ring})
           ELSE /\ ~Blocked(g, LockedBelow(Heap(ord), g.ring))
                /\ Step(g, [g EXCEPT !.pc = "done",
                                     !.err = RemoveNode(Heap(ord), g.ring, g.node).err],
                        RemoveNode(Heap(ord), g.ring, g.node),
                        {g.ring} \cup LockedBelow(Heap(ord), g.ring))

\* collapseRing: r.parent.InsertKey(key), its FindNode
CollapseFind ==
    \E g \in tasks :
        /\ g.pc = "refind"
        /\ g.from \in DOMAIN rings
        /\ Path(Heap("asc"), g.from, Head(g.todo)) \cap HeldByOthers(g) = {}
        /\ LET f == FindNode(Heap("asc"), g.from, Head(g.todo))
           IN Step(g, [g EXCEPT !.pc = "relock", !.node = f.node, !.ring = f.ring,
                                !.vNodeHash = f.vNodeHash, !.keyHash = f.keyHash,
                                !.err = f.err],
                   Heap("asc"), g.held)

\* collapseRing: r.parent.InsertKey(key) from its duplicate check on:
\* parent.Lock(), store the key or make room for it; then the next key, or
\* return and r.Unlock()
CollapseStore ==
    \E g \in tasks :
        /\ g.pc = "relock"
        /\ g.err = "" => (Live(g) /\ ~Blocked(g, {g.ring}))
        /\ LET T == insertAt(Heap("asc"),
                             [err |-> g.err, node |-> g.node, ring |-> g.ring,
                              vNodeHash |-> g.vNodeHash, keyHash |-> g.keyHash],
                             Head(g.todo))
           IN Step(g,
                   IF T.err # ""
                   THEN [g EXCEPT !.pc = "done", !.held = {}, !.todo = << >>,
                                  !.err = "error inserting key into parent ring"]
                   ELSE IF Tail(g.todo) = << >>
                   THEN [g EXCEPT !.pc = "done", !.held = {}, !.todo = << >>]
                   ELSE [g EXCEPT !.pc = "refind", !.todo = Tail(@)],
                   T,
                   g.held \cup (IF g.err = "" THEN {g.ring} ELSE {}))

NextLocks ==
    \/ FillKey
    \/ DrainKey
    \/ StartLocks
    \/ FindNodeEnter
    \/ LookupRead
    \/ InsertKeyCheck
    \/ InsertKeyLock
    \/ InsertKeyGrow
    \/ SplitNodeLock
    \/ SplitNodeLeaf
    \/ SplitNodeReinsert
    \/ RemoveKeyLock
    \/ RemoveNodeLock
    \/ CollapseFind
    \/ CollapseStore

SpecLocks == InitRace /\ [][NextLocks]_vars

(***************************************************************************)
(* What the properties talk about.                                         *)
(***************************************************************************)
\* The tree as it stands between two calls.
Now == Heap("asc")

\* The tree after the step, for properties of a call.
After ==
    [rings |-> rings', nodes |-> nodes', nextId |-> nextId', ord |-> "asc", err |-> ""]

\* Leaf n of tree T has key in one of its vNode key maps.
Holds(T, n, key) ==
    n \in DOMAIN T.nodes /\ \E v \in DOMAIN T.nodes[n].keys : key \in DOMAIN T.nodes[n].keys[v]

\* The keys some leaf of T has.
Resident(T) == {k \in Keys : \E n \in DOMAIN T.nodes : Holds(T, n, k)}

\* Some leaf below member m of T (m itself when it is a leaf) has key.
HoldsBelow(T, m, key) ==
    IF IsRing(T, m) THEN \E n \in LeavesBelow(T, m) : Holds(T, n, key)
    ELSE Holds(T, m, key)

\* The level of the ring leaf n is a member of.
LevelOf(T, n) == T.rings[CHOOSE r \in DOMAIN T.rings : n \in T.rings[r].members].level

TypeOK ==
    /\ RootId \in DOMAIN rings
    /\ DOMAIN nodes \subseteq {IdPool[i] : i \in 1..budget}
    /\ nextId \in 0..budget
    /\ salt \in 0..(NumSalts - 1)
    /\ stored \subseteq Keys /\ clean \subseteq stored /\ gone \subseteq Keys
    /\ phase \in {"new", "grow", "drain", "any"}

(***************************************************************************)
(* C1  Insert/Lookup round trip: when InsertKey(k) returned success, by    *)
(* storing directly, after adding a sibling leaf or after splitting a      *)
(* leaf, a Lookup(k) from the same root right after it returns success     *)
(* with the id of a leaf whose key set contains k.                         *)
(***************************************************************************)
C1_InsertLookupRoundTrip ==
    (last.op = "InsertKey" /\ last.err = "") =>
        /\ Lookup(Now, RootId, last.arg).err = ""
        /\ Holds(Now, Lookup(Now, RootId, last.arg).id, last.arg)

\* InsertKey succeeded and its key sits on a leaf of a sub-ring.
C1_Witness ==
    /\ last.op = "InsertKey" /\ last.err = ""
    /\ Lookup(Now, RootId, last.arg).err = ""
    /\ LevelOf(Now, Lookup(Now, RootId, last.arg).id) > 0

C3_InsertRemoveInverse ==
    [][/\ (last'.op = "RemoveKey" /\ last'.arg \in clean) => last'.err = ""
       /\ \A k \in gone' : Lookup(After, RootId, k).err # ""]_vars

(***************************************************************************)
(* C4  Duplicate insert is rejected: InsertKey(k) of a key k inserted      *)
(* successfully before, with no RemoveKey(k) in between, returns the       *)
(* duplicate error, and no leaf's load or key set changes.                 *)
(***************************************************************************)
C4_DuplicateInsertRejected ==
    [][(last'.op = "InsertKey" /\ last'.arg \in stored) =>
          /\ last'.err = "key is already in ring"
          /\ nodes' = nodes
          /\ rings' = rings]_vars

(***************************************************************************)
(* C5  Overload is recovered internally: InsertKey of a key no leaf has,   *)
(* on a tree whose root has a leaf member with threshold >= 1, returns     *)
(* success.                                                                *)
(***************************************************************************)
C5_OverloadRecovered ==
    [][(/\ last'.op = "InsertKey"
        /\ last'.arg \notin Resident(Now)
        /\ \E n \in rings[RootId].members \cap DOMAIN nodes : nodes[n].threshold >= 1)
       => last'.err = ""]_vars

(***************************************************************************)
(* C6  InsertNode fails with the capacity error when the ring has maxCount *)
(* members, and (the ring not being full) with the duplicate error when    *)
(* the id is a member; in both cases members, circle and key placement     *)
(* are as before the call.                                                 *)
(***************************************************************************)
C6_InsertNodeRejected ==
    [][last'.op = "InsertNode" =>
          /\ Size(Now, RootId) >= rings[RootId].maxCount =>
                 /\ last'.err = "ring is at capacity"
                 /\ rings' = rings /\ nodes' = nodes
          /\ (Size(Now, RootId) < rings[RootId].maxCount
              /\ last'.arg \in rings[RootId].members) =>
                 /\ last'.err = "node is already in the ring"
                 /\ rings' = rings /\ nodes' = nodes]_vars

\* InsertNode of a member that holds a key was refused as a duplicate.
C6_Witness ==
    /\ last.op = "InsertNode" /\ last.err = "node is already in the ring"
    /\ last.arg \in rings[RootId].members
    /\ Holds(Now, last.arg, "k1")

C8_RemoveNodeMigrates ==
    [][(last'.op = "RemoveNode" /\ Size(Now, RootId) >= 2) =>
          /\ last'.arg \notin rings'[RootId].members
          /\ Size(After, RootId) = Size(Now, RootId) - 1
          /\ CircleSize(rings'[RootId].circle)
                 = CircleSize(rings[RootId].circle) - NumReplicas
          /\ last'.load = 0
          /\ \A v \in DOMAIN nodes[last'.arg].keys :
                 \A k \in DOMAIN nodes[last'.arg].keys[v] :
                     /\ HoldsBelow(After,
                                   NextOther(rings[RootId].circle, v, last'.arg).id, k)
                     /\ Lookup(After, RootId, k).err = ""]_vars

(***************************************************************************)
(* C9  On a ring without members, Lookup(k) and FindNode(k) return the     *)
(* empty-ring error for every key k and change nothing.                    *)
(***************************************************************************)
C9_EmptyRingQueries ==
    [][(rings[RootId].members = {} /\ last'.op \in {"Lookup", "FindNode"}) =>
          /\ last'.err = "ring is empty"
          /\ rings' = rings /\ nodes' = nodes]_vars

\* Lookup on the ring New returned gave the empty-ring error.
C9_Witness ==
    /\ rings[RootId].members = {}
    /\ last.op = "Lookup" /\ last.err = "ring is empty"

(***************************************************************************)
(* C10  Residency: between public calls, for every key k on a leaf n of a  *)
(* ring R, R's circle resolves hash(k, R.level) to n, and the circle of    *)
(* every ancestor A of R resolves hash(k, A.level) to the sub-ring on the  *)
(* path to n.                                                              *)
(***************************************************************************)
RECURSIVE ResolvesDownTo(_, _, _)
\* The circles from the root down to member x resolve key to x.
ResolvesDownTo(T, x, key) ==
    LET R == CHOOSE r \in DOMAIN T.rings : x \in T.rings[r].members
    IN /\ FindClosest(T.rings[R].circle, hash(key, T.rings[R].level)).id = x
       /\ (R = RootId \/ ResolvesDownTo(T, R, key))

C10_Residency ==
    \A n \in DOMAIN nodes : \A k \in Keys :
        Holds(Now, n, k) => ResolvesDownTo(Now, n, k)

(***************************************************************************)
(* What the structural invariants talk about.                              *)
(***************************************************************************)
\* The number of keys in the vNode key maps of leaf n.
RECURSIVE SumOver(_, _)
SumOver(f, S) ==
    IF S = {} THEN 0
    ELSE Cardinality(DOMAIN f[AnyOf(S)]) + SumOver(f, S \ {AnyOf(S)})

KeyCount(T, n) == SumOver(T.nodes[n].keys, DOMAIN T.nodes[n].keys)

\* The ids the entries of ring r's circle are mapped to.
Owners(T, r) == {T.rings[r].circle[h] : h \in DOMAIN T.rings[r].circle}

\* The circle hashes of ring r mapped to id.
VNodesOf(T, r, id) == {h \in DOMAIN T.rings[r].circle : T.rings[r].circle[h] = id}

\* The hashes InsertNode registers for id.
Replicas(id) == {hash(id, i) : i \in 0..(NumReplicas - 1)}

\* The ring leaf or sub-ring x is a member of.
RingOf(T, x) == CHOOSE r \in DOMAIN T.rings : x \in T.rings[r].members

(***************************************************************************)
(* C11  Per-node load is bounded: between public calls every leaf of the   *)
(* tree has load <= its threshold; keys moved by the remapping of          *)
(* InsertNode or drained into a successor by RemoveNode never overfill the *)
(* receiving leaf.                                                         *)
(***************************************************************************)
C11_LoadBounded ==
    \A n \in DOMAIN nodes : nodes[n].load <= nodes[n].threshold

(***************************************************************************)
(* C12  Load accounting: after every operation returns, every leaf's load  *)
(* equals the sum of the sizes of its per-vNode key sets.                  *)
(***************************************************************************)
C12_LoadAccounting ==
    \A n \in DOMAIN nodes : nodes[n].load = KeyCount(Now, n)

(***************************************************************************)
(* C13  Members/Circle agreement: after every operation returns, for every *)
(* ring of the tree the set of ids in its members map equals the set of    *)
(* owner ids appearing in its circle.                                      *)
(***************************************************************************)
C13_MembersCircleAgree ==
    \A r \in DOMAIN rings : rings[r].members = Owners(Now, r)

(***************************************************************************)
(* C14  vNode registration: after every operation returns, for every leaf  *)
(* n that is a member of a ring R, the key set of n's vNode map is exactly *)
(* { hash(n.id, i) : 0 <= i < NumReplicas } and equals the set of R's      *)
(* circle hashes mapped to n.id.                                           *)
(***************************************************************************)
C14_VNodeRegistration ==
    \A n \in DOMAIN nodes :
        /\ DOMAIN nodes[n].keys = Replicas(n)
        /\ DOMAIN nodes[n].keys = VNodesOf(Now, RingOf(Now, n), n)

(***************************************************************************)
(* C15  Capacity: after any sequence of operations every ring of the tree  *)
(* has |members| <= maxCount and maxCount >= 2; New(m) with m < 2 yields a *)
(* root with maxCount 2.                                                   *)
(***************************************************************************)
C15_Capacity ==
    /\ \A r \in DOMAIN rings :
           /\ Size(Now, r) <= rings[r].maxCount
           /\ rings[r].maxCount >= 2
    /\ \A m \in 0..1 : New(m).maxCount = 2

\* The root and a sub-ring made by a split are both full.
C15_Witness ==
    /\ Size(Now, RootId) = rings[RootId].maxCount
    /\ \E r \in DOMAIN rings \ {RootId} : Size(Now, r) = rings[r].maxCount

(***************************************************************************)
(* C16  Tree shape: after any sequence of operations the root has no       *)
(* parent and level 0; every sub-ring reachable from the root is a member  *)
(* of its parent under its own id, its parent pointer is that ring, and    *)
(* its level is its number of edges from the root.                         *)
(***************************************************************************)
RECURSIVE Depth(_, _)
\* The number of member edges from the root to ring r.
Depth(T, r) == IF r = RootId THEN 0 ELSE 1 + Depth(T, RingOf(T, r))

C16_TreeShape ==
    /\ rings[RootId].parent = NoRing
    /\ rings[RootId].level = 0
    /\ \A r \in DOMAIN rings :
           /\ rings[r].id = r
           /\ r # RootId =>
                  /\ \E p \in DOMAIN rings : r \in rings[p].members
                  /\ rings[r].parent = RingOf(Now, r)
                  /\ rings[r].level = Depth(Now, r)

\* A sub-ring made by a split is still in place after a RemoveNode on the root.
C16_Witness ==
    /\ last.op = "RemoveNode" /\ last.err = ""
    /\ \E r \in rings[RootId].members :
           IsRing(Now, r) /\ rings[r].level = 1 /\ rings[r].parent = RootId

(***************************************************************************)
(* What the properties of the overload path talk about.                    *)
(***************************************************************************)
\* The leaf InsertKey(key) resolves to before the call.
Target(key) == FindNode(Now, RootId, key)

\* InsertKey(key) is made and finds a leaf that does not have key and is
\* overloaded (load >= threshold).
Overflows(key) ==
    /\ last'.op = "InsertKey" /\ last'.arg = key
    /\ Target(key).err = ""
    /\ ~HasKey(Now, Target(key).node, Target(key).vNodeHash, key)
    /\ nodes[Target(key).node].load >= nodes[Target(key).node].threshold

\* The members ring r has after the step and did not have before.
Joined(r) == IF r \in DOMAIN rings' THEN rings'[r].members \ rings[r].members ELSE {}

\* id is a leaf created during the step, with threshold t.
FreshLeaf(id, t) ==
    /\ id \notin DOMAIN nodes /\ id \notin DOMAIN rings
    /\ id \in DOMAIN nodes' /\ nodes'[id].threshold = t

C18_OverflowSplitsInPlace ==
    [][\A k \in Keys :
          (/\ Overflows(k)
           /\ Size(Now, Target(k).ring) = rings[Target(k).ring].maxCount)
          => /\ last'.err = ""
             /\ Target(k).node \in DOMAIN rings' /\ Target(k).node \notin DOMAIN nodes'
             /\ rings'[Target(k).node].id = Target(k).node
             /\ rings'[Target(k).node].level = rings[Target(k).ring].level + 1
             /\ rings'[Target(k).node].maxCount
                    = rings[Target(k).ring].maxCount * branchFactor
             /\ rings'[Target(k).node].parent = Target(k).ring
             /\ rings'[Target(k).ring].members = rings[Target(k).ring].members
             /\ rings'[Target(k).ring].circle = rings[Target(k).ring].circle
             /\ Size(After, Target(k).node) >= 2
             /\ \A m \in rings'[Target(k).node].members :
                    /\ m \notin DOMAIN nodes /\ m \notin DOMAIN rings
                    /\ IsNode(After, m) =>
                           nodes'[m].threshold = nodes[Target(k).node].threshold
             /\ HoldsBelow(After, Target(k).node, k)]_vars

\* InsertKey found the root full and split a leaf: two ids were made, and the
\* key and a key the leaf had are below the new sub-ring.
C18_Witness ==
    /\ last.op = "InsertKey" /\ last.err = "" /\ last.made = 2
    /\ Size(Now, RootId) = rings[RootId].maxCount
    /\ \E r \in rings[RootId].members :
           /\ IsRing(Now, r) /\ HoldsBelow(Now, r, last.arg)
           /\ \E k \in Keys \ {last.arg} : HoldsBelow(Now, r, k)

ArrayEntries(a) ==
    [h \in {a[i].hash : i \in 1..Len(a)} |-> (CHOOSE e \in {a[i] : i \in 1..Len(a)} : e.hash = h).id]

TreeEntries(t) ==
    [h \in {t.node[a].key : a \in Reach(t.node, t.root)} |->
        t.node[CHOOSE a \in Reach(t.node, t.root) : t.node[a].key = h].value]

C21_CirclesRefineOrderedMap ==
    /\ ArrayEntries(vNodes) = entries
    /\ TreeEntries(tree) = entries
    /\ ArraySize(vNodes) = CircleSize(entries)
    /\ TreeSize(tree) = CircleSize(entries)
    /\ last.op \in {"Insert", "Delete", "FindClosest", "FindNextClosest"} =>
           /\ last.array = last.want
           /\ last.rbtree = last.want

(***************************************************************************)
(* C22  Lock ordering: no thread requests the lock of a ring, shared or    *)
(* exclusive, while it holds the lock of one of that ring's descendants;   *)
(* here for the goroutines of a Traversal, whose calls hold the shared     *)
(* lock of their ring from RLock to the deferred RUnlock.                  *)
(***************************************************************************)
\* The call at position i of g's stack holds the lock of its ring.
HoldsLock(g, i) == g.stack[i].pc # "RLock"

C22_LockOrdering ==
    \A g \in tasks : \A i, j \in DOMAIN g.stack :
        (HoldsLock(g, i) /\ ~HoldsLock(g, j)) =>
            g.stack[i].ring \notin RingsBelow(Now, g.stack[j].ring) \ {g.stack[j].ring}

(***************************************************************************)
(* C26  Traversal(f, 0) started on any ring, the root or a sub-ring,       *)
(* terminates, spawning finitely many tasks: no call of Traversal on a     *)
(* ring and level is caused by a call on the same ring and level (the tree *)
(* being the same, such a call causes itself again, without end).          *)
(***************************************************************************)
C26_TraversalTerminates == \A g \in tasks : ~Recurs(g)

(***************************************************************************)
(* C27  ParallelGossip(msg, barrier) terminates on every tree; in          *)
(* particular every Done on a completion counter is preceded by a matching *)
(* Add: no counter goes below zero.                                        *)
(***************************************************************************)
C27_CounterNeverNegative == \A name \in DOMAIN wg : wg[name] >= 0

(***************************************************************************)
(* C23  Write path locking: every write to a ring's members map or Circle, *)
(* and every write to the key sets or the load of a leaf that is a member  *)
(* of that ring, is made by a thread that holds that ring's exclusive lock *)
(* at that moment (the parent's members during a collapse and the leaves   *)
(* of sub-rings during a remap included): a step of a goroutine changes    *)
(* only rings, and leaves of rings, it holds during the step.              *)
(***************************************************************************)
\* The members map of ring r: which ids it has, and whether the entry of an
\* id is a Node or a Ring.
MembersMap(T, r) == [m \in T.rings[r].members |-> IsRing(T, m)]

C23_WritePathLocking ==
    [][phase = "race" =>
          /\ \A r \in DOMAIN rings \cap DOMAIN rings' :
                 (\/ MembersMap(After, r) # MembersMap(Now, r)
                  \/ rings'[r].circle # rings[r].circle) => r \in last'.held
          /\ \A r \in DOMAIN rings :
                 \A n \in (rings[r].members \cap DOMAIN nodes) \cap DOMAIN nodes' :
                     (\/ nodes'[n].keys # nodes[n].keys
                      \/ nodes'[n].load # nodes[n].load) => r \in last'.held]_vars

(***************************************************************************)
(* C24  Atomic publication of a split: in every interleaving of FindNode   *)
(* calls (made by a client or by InsertKey as its first statement) with    *)
(* InsertKey calls that split a leaf, FindNode never fails with            *)
(* a missing-entry or empty-ring error; it returns a leaf that is a member *)
(* of the ring it returns (the old leaf, or a leaf inside the new          *)
(* sub-ring), and it never enters a sub-ring a splitNode has published but *)
(* not yet returned from, that is before its two leaves and the old keys   *)
(* are in place.                                                           *)
(***************************************************************************)
\* The goroutine g has become with the step.
Next_(g) == CHOOSE g2 \in tasks' : g2.id = g.id

\* The sub-rings a splitNode is at work on.
InTheMaking == {h.node : h \in {x \in tasks : x.pc \in {"leaf1", "leaf2", "reinsert"}}}

C24_SplitPublishedAtomically ==
    [][\A g \in tasks :
          (/\ phase = "race"
           /\ \A h \in tasks : h.op \in {"FindNode", "InsertKey"}
           /\ g.pc = "find" /\ Next_(g).pc # "find") =>
              /\ Next_(g).err = ""
              /\ Next_(g).node \in DOMAIN nodes
              /\ Next_(g).node \in rings[Next_(g).ring].members
              /\ Path(Now, g.from, g.key) \cap InTheMaking = {}]_vars

\* A FindNode returned a leaf of a sub-ring while the InsertKey that made the
\* sub-ring has not yet inserted its key.
C24_Witness ==
    \E g, h \in tasks :
        /\ g.op = "FindNode" /\ g.pc = "done" /\ g.err = ""
        /\ h.op = "InsertKey" /\ h.pc = "find" /\ h.from = h.node
        /\ g.ring = h.node

(***************************************************************************)
(* C25  Per-ring linearizability of key insertion: when two threads call   *)
(* InsertKey concurrently with the same key, not stored before, exactly    *)
(* one call returns success and the other returns Duplicate ("key is       *)
(* already in ring"), and afterwards the load of the leaf that holds the   *)
(* key equals the number of keys it stores.                                *)
(***************************************************************************)
C25_InsertKeyLinearizable ==
    \A g, h \in tasks :
        (/\ phase = "race"
         /\ g.id < h.id
         /\ g.op = "InsertKey" /\ h.op = "InsertKey"
         /\ g.key = h.key /\ g.key \notin stored
         /\ g.pc = "done" /\ h.pc = "done") =>
            /\ {g.err, h.err} = {"", "key is already in ring"}
            /\ \A n \in DOMAIN nodes :
                   Holds(Now, n, g.key) => nodes[n].load = KeyCount(Now, n)

(***************************************************************************)
(* C28  Remap on node insertion is exact: after a successful InsertNode(n) *)
(* into a ring R that already holds keys (in leaves or inside sub-rings of *)
(* R), a key has moved to n if and only if its hash at R's level now       *)
(* resolves by FindClosest to one of n's vNodes; every other key stays on  *)
(* the same leaf and vNode as before, and no ring's membership other than  *)
(* R's changes.  Here R is the root, the ring the client calls.            *)
(***************************************************************************)
\* Key is in the key map of vNode v of leaf m of tree T.
StoredAt(T, m, v, key) == m \in DOMAIN T.nodes /\ HasKey(T, m, v, key)

C28_RemapExact ==
    [][(/\ last'.op = "InsertNode" /\ last'.err = ""
        /\ last'.arg \notin rings[RootId].members
        /\ Resident(Now) # {}) =>
           /\ \A k \in Resident(Now) :
                  /\ Holds(After, last'.arg, k) <=>
                         FindClosest(rings'[RootId].circle, hash(k, 0)).id = last'.arg
                  /\ ~Holds(After, last'.arg, k) =>
                         \A m \in DOMAIN nodes : \A v \in DOMAIN nodes[m].keys :
                             StoredAt(Now, m, v, k) => StoredAt(After, m, v, k)
           /\ \A r \in DOMAIN rings \ {RootId} :
                  r \in DOMAIN rings' /\ rings'[r].members = rings[r].members]_vars

(***************************************************************************)
(* C29  Split preserves keys: when splitNode(n) has returned, the keys     *)
(* stored in the leaves of the new sub-tree are exactly the keys n held    *)
(* before the split, each stored once, on the leaf and vNode FindClosest   *)
(* selects for the key's hash at the sub-ring's level.                     *)
(***************************************************************************)
\* The keys in a map from vNode to key map.
KeysIn(keys) == UNION {DOMAIN keys[v] : v \in DOMAIN keys}

\* The places (leaf, vNode) below ring r of tree T that store key.
Places(T, r, key) ==
    UNION {{<<n, v>> : v \in {w \in DOMAIN T.nodes[n].keys : key \in DOMAIN T.nodes[n].keys[w]}} :
              n \in LeavesBelow(T, r)}

\* The vNode of ring r that FindClosest selects for key at r's level.
Selected(T, r, key) == FindClosest(T.rings[r].circle, hash(key, T.rings[r].level))

Collapsing == last'.res

C30_CollapsePreserves ==
    [][(/\ last'.op = "RemoveNode"
        /\ Collapsing \in DOMAIN rings \ {RootId}
        /\ shouldCollapse(Now, Collapsing)) =>
           /\ Collapsing \in DOMAIN nodes'
           /\ Collapsing \in rings'[rings[Collapsing].parent].members
           /\ nodes'[Collapsing].threshold = nodes[last'.arg].threshold
           /\ rings'[rings[Collapsing].parent].circle = rings[rings[Collapsing].parent].circle
           /\ \A k \in GatherKeys(Now, Collapsing) : Lookup(After, RootId, k).err = ""]_vars

\* The rings that are in the tree before a step and are not after it.
Discarded == DOMAIN rings \ DOMAIN rings'

\* C31: collapse guard.  The root never leaves the tree, no ring that leaves
\* the tree in a step had a ring among its members, and a ring that a step
\* replaces by a leaf (a collapse) was below the root and had fewer than two
\* members.
C31_CollapseGuard ==
    [][/\ RootId \in DOMAIN rings'
       /\ \A r \in Discarded :
            /\ r # RootId
            /\ \A m \in rings[r].members : m \notin DOMAIN rings
            /\ r \in DOMAIN nodes' =>
                    /\ rings[r].parent # NoRing
                    /\ Cardinality(rings[r].members) < 2]_vars

\* Where FindNode from the root puts the key of the call a step makes.
Place == FindNode(Now, RootId, last'.arg)

\* The leaf of the key is one key away from its underflow limit, below the root.
Underflows ==
    /\ Place.err = ""
    /\ HasKey(Now, Place.node, Place.vNodeHash, last'.arg)
    /\ nodes[Place.node].load - 1 <= nodes[Place.node].threshold \div 10
    /\ Place.ring # RootId

\* RemoveNode took the leaf out of its ring, or collapsed the ring.
Removed ==
    \/ Place.node \notin DOMAIN nodes'
    \/ Place.ring \notin DOMAIN rings'
    \/ Place.node \notin rings'[Place.ring].members

RemoveNodeErrors ==
    {"not enough nodes in the circle to perform remapping",
     "node not found in members during removal",
     "no valid next node found for remapping"}

\* C33: RemoveNode errors leave the ring untouched.  A RemoveNode call that
\* returns one of its errors leaves the members and the Circle of every ring
\* and the key sets of every leaf, the passed node included, as they were
\* before the call.
C33_RemoveNodeErrorsKeep ==
    [][(last'.op = "RemoveNode" /\ last'.err \in RemoveNodeErrors) =>
           /\ rings' = rings
           /\ DOMAIN nodes' = DOMAIN nodes
           /\ \A n \in DOMAIN nodes : nodes'[n].keys = nodes[n].keys]_vars

\* The hashes in the subtree of node n of tree t.
Below(t, n) == {t.node[a].key : a \in Reach(t.node, n)}

\* The numbers of black nodes on the paths from n down to nil.
RECURSIVE BlackHeights(_, _)
BlackHeights(t, n) ==
    IF n = 0 THEN {0}
    ELSE {b + (IF t.node[n].red THEN 0 ELSE 1) :
             b \in BlackHeights(t, t.node[n].left) \cup BlackHeights(t, t.node[n].right)}

\* The number of nodes in the subtree of n, a node on two paths counted twice.
RECURSIVE CountBelow(_, _)
CountBelow(t, n) ==
    IF n = 0 THEN 0
    ELSE 1 + CountBelow(t, t.node[n].left) + CountBelow(t, t.node[n].right)

\* C34: red-black tree backing invariants.  After any sequence of Insert and
\* Delete calls the tree is a binary search tree on the hashes with no hash
\* twice, its root is black, no red node has a red child, every path from the
\* root to nil has the same number of black nodes, and size is the number of
\* nodes.
C34_RedBlackInvariants ==
    /\ \A a \in Reach(tree.node, tree.root) :
          /\ \A k \in Below(tree, tree.node[a].left) : k < tree.node[a].key
          /\ \A k \in Below(tree, tree.node[a].right) : k > tree.node[a].key
          /\ tree.node[a].red =>
                 /\ ~isRed(tree.node, tree.node[a].left)
                 /\ ~isRed(tree.node, tree.node[a].right)
    /\ CountBelow(tree, tree.root) = Cardinality(Below(tree, tree.root))
    /\ ~isRed(tree.node, tree.root)
    /\ Cardinality(BlackHeights(tree, tree.root)) = 1
    /\ tree.size = CountBelow(tree, tree.root)

\* A Delete took an entry out of a tree that still has three nodes or more,
\* one of them red.
C34_Witness ==
    /\ last.op = "Delete"
    /\ last.rbtree
    /\ tree.size >= 3
    /\ \E a \in Reach(tree.node, tree.root) : tree.node[a].red

\* C39: InsertKey on a ring with no members.  The call returns an error
\* without a crash, and leaves the ring as it was.
C39_InsertKeyOnEmptyRing ==
    [][(last'.op = "InsertKey" /\ rings[RootId].members = {}) =>
           /\ last'.err \notin {"", Panic}
           /\ rings' = rings
           /\ nodes' = nodes]_vars

\* The vNode key sets of reachable leaves that hold key in the state ns.
Copies(ns, key) ==
    {p \in (DOMAIN ns) \X (0..52) :
        p[2] \in DOMAIN ns[p[1]].keys /\ key \in DOMAIN ns[p[1]].keys[p[2]]}

\* The leaves hold the keys of S, each in one vNode key set of one leaf.
Conserved(ns, S) ==
    \A k \in Keys : Cardinality(Copies(ns, k)) = (IF k \in S THEN 1 ELSE 0)

\* The keys inserted and not removed, after the call of a step returned.
Expected ==
    IF last'.op = "InsertKey" /\ last'.err = "" THEN stored \cup {last'.arg}
    ELSE IF last'.op = "RemoveKey" /\ last'.err = "" THEN stored \ {last'.arg}
    ELSE stored

\* C40: key conservation and uniqueness.  The leaves reachable from the root
\* hold the keys inserted successfully and not removed successfully, each in
\* exactly one vNode key set of exactly one leaf: every InsertKey, RemoveKey,
\* InsertNode and RemoveNode call made in such a state returns in such a state.
C40_KeysConserved ==
    [][(/\ last'.op \in {"InsertKey", "RemoveKey", "InsertNode", "RemoveNode"}
        /\ Conserved(nodes, stored)) => Conserved(nodes', Expected)]_vars

\* Every goroutine makes an InsertKey call, with a key that is not stored
\* and that no other goroutine inserts.
DistinctNewKeys ==
    /\ phase = "race"
    /\ \A g \in tasks : g.op = "InsertKey" /\ g.key \notin stored
    /\ \A g, h \in tasks : g.key = h.key => g.id = h.id

\* C35: overload recovery under concurrency.  When the goroutines call
\* InsertKey at the same time with distinct new keys, no call returns the
\* error "ring is at capacity".
C35_NoCapacityError ==
    DistinctNewKeys => \A g \in tasks : g.err # "ring is at capacity"

\* The goroutines make InsertKey and RemoveKey calls on distinct keys, and
\* all of them have returned.
AllReturned ==
    /\ phase = "race"
    /\ \A g \in tasks : g.op \in {"InsertKey", "RemoveKey"} /\ g.pc = "done"
    /\ \A g, h \in tasks : g.key = h.key => g.id = h.id

\* C36: no lost insert under concurrency.  Once concurrent InsertKey and
\* RemoveKey calls on distinct keys have all returned, every key whose
\* InsertKey returned nil is found by Lookup from the root.
C36_NoLostInsert ==
    AllReturned =>
        \A g \in tasks :
            (g.op = "InsertKey" /\ g.err = "") => Lookup(Now, RootId, g.key).err = ""

(***************************************************************************)
(* C38: a sequential InsertKey returns after finitely many retries.  A     *)
(* call that retries in a sub-ring it has made or grown is never back      *)
(* where it was before the split: in front of a leaf that is full of keys  *)
(* which hash like its key at every level, in a ring at capacity whose     *)
(* sub-rings are at capacity with the two leaves a split gives them.  From *)
(* there every split leads to the same situation one level deeper, and the *)
(* call does not return.                                                   *)
(***************************************************************************)
\* hash(key, level) = hash(other, level) at every level that is explored
Alike(key, other) == \A level \in 0..(MaxLevel + 1) : hash(key, level) = hash(other, level)

Trapped(g) ==
    /\ g.op = "InsertKey" /\ g.pc = "split"
    /\ Live(g)
    /\ rings[g.ring].level > 0
    /\ g.from = g.ring
    /\ rings[g.ring].maxCount * branchFactor <= 2
    /\ \A v \in DOMAIN nodes[g.node].keys :
           \A key \in DOMAIN nodes[g.node].keys[v] : Alike(key, g.key)

C38_InsertKeyTerminates == \A g \in tasks : ~Trapped(g)

(***************************************************************************)
(* C37: concurrent FindNode, Lookup, InsertKey and RemoveKey calls are     *)
(* free of deadlock.  There is never a set of goroutines each of which     *)
(* waits for a ring lock that another goroutine of the set holds: such     *)
(* goroutines wait for ever under any scheduler, and their calls do not    *)
(* return.                                                                 *)
(***************************************************************************)
\* The goroutines whose locks keep g from its next step: holders of an
\* exclusive lock where g asks for r.RLock(), holders of any lock where g
\* asks for r.Lock().
WaitsFor(g) ==
    IF g.pc = "find"
    THEN {h \in tasks \ {g} : g.from \in h.held}
    ELSE IF g.pc = "lock" /\ g.op = "Lookup"
    THEN {h \in tasks \ {g} : g.ring \in h.held}
    ELSE IF g.pc \in {"lock", "grow", "split", "remove"} \/ (g.pc = "relock" /\ g.err = "")
    THEN {h \in tasks \ {g} : g.ring \in h.held \cup h.shared}
    ELSE {}

Deadlocked ==
    \E W \in SUBSET tasks : W # {} /\ \A g \in W : WaitsFor(g) \cap W # {}

C37_DeadlockFreedom == ~Deadlocked

====
